---- MODULE Spec2Model ----
(***************************************************************************)
(* Outreach state machine of series.so_v2: the User / Query / ReachOut     *)
(* collections and the OutreachService coordinator that drives them        *)
(* (src/services/user.service.js, query.service.js, reachOut.service.js,   *)
(* jobs/outreach.job.js).                                                  *)
(*                                                                         *)
(* Identifiers.  A user document has two keys: its jid (a string, the      *)
(* WhatsApp address) and its _id (a Mongo ObjectId).  The code looks users *)
(* up by jid in UserService.findOrCreateUser and by _id in                 *)
(* QueryService.createQuery / UserService.updateUser, so both are kept:    *)
(* Jid(n) is the jid of transport user n, Oid(n) an ObjectId.  A string    *)
(* that is the text of an ObjectId can itself be handed to                 *)
(* findOrCreateUser as a jid (handleReachOutUser does so with              *)
(* Query.author_id); the user document created that way is keyed by that   *)
(* string.                                                                 *)
(***************************************************************************)
EXTENDS Integers, Sequences, FiniteSets, TLC

\* ------------------------------------------------------------------ bounds
NJids == 2
MaxQueries == 1
MaxReachOuts == 3
MaxCandidates == 3
\* the longest candidate list of a fan-out during which a step fails
MaxFaultyCandidates == 2
\* the interleaved specification: requests in flight, and its own store bounds
MaxProcs == 2
\* the cache specifications: HISTORY_LENGTH scaled down, Message documents
\* stored, UserService calls in flight
HistoryLength == 2
MaxMessages == 3
MaxCalls == 2
\* the largest maxAttempts executeWithRetry is called with
MaxAttempts == 3
\* the seed skills counted in a document beyond which the count is not told apart
MaxSkills == 3
\* the startTyping, stopTyping and stopAll calls in flight at once
MaxTypingCalls == 2
\* the timers TypingManager creates in a run
MaxTimers == 6
ConcMaxQueries == 2
ConcMaxReachOuts == 2
ConcMaxCandidates == 1

\* ---------------------------------------------------------------- constants
Null == 0

UserTypes == {"new", "idol", "candidate", "freelancer", "client", "hr", "rof", "roc"}
ReachOutTypes == {"ask", "notify"}
ReachOutStatuses == {"init", "qualify", "hold", "fail"}
QueryStatuses == {"init", "success", "fail", "hold"}

Jid(n) == <<"wa", n>>
Oid(n) == <<"oid", n>>
Jids == {Jid(n) : n \in 1..NJids}
\* every string used as a jid: transport jids and ObjectId texts
JidStrings == Jids \cup {Oid(n) : n \in 1..NJids}
\* the ObjectId Mongo gives the document created for jid string k
NewOid(k) == IF k[1] = "wa" THEN Oid(k[2]) ELSE Oid(NJids + k[2])
\* whether Mongoose can cast the value to an ObjectId (User.findById)
IsObjectId(x) == x[1] = "oid"

VARIABLES users, reachOuts, queries, lastCall, procs, coheld,
          userCache, messages, history, calls, retry, triage, typing

\* the Redis entries user:{jid} and history:{jid}, the Message collection, and
\* the UserService calls in flight
cacheVars == <<userCache, messages, history, calls>>

\* retry is the executeWithRetry call: its loop counter, and what it has done
\* triage is the last document message triaged: what was extracted from it, what
\* the classifier answered, and what came of it
vars == <<users, reachOuts, queries, lastCall, procs, coheld, cacheVars, retry, triage,
          typing>>

\* lastCall records the most recent QueryService.isQuerySuccessful call (what
\* it returned, how many Query writes it issued, and whether the call before
\* it was the same call); any other operation resets it.
NoCall == [op |-> "other", queryId |-> 0, ret |-> FALSE, qwrites |-> 0,
           again |-> FALSE, before |-> FALSE]

\* The persisted state threaded through the handlers: the three collections,
\* and what the running call has done so far besides: the number of
\* Query.status writes it issued, the WhatsApp messages it sent (out), the
\* Message records it saved (saved) and what its sweeps returned (sweeps).
St == [users |-> users, reachOuts |-> reachOuts, queries |-> queries, qwrites |-> 0,
       out |-> <<>>, saved |-> <<>>, sweeps |-> <<>>, presence |-> <<>>,
       seen |-> <<>>]

\* the kinds of outbound message the coordinator writes
MessageKinds == {"framing", "ask", "notify", "notice", "summary",
                 "inbound", "wait", "received", "next", "rejection", "reply"}

\* the statuses the ReachOuts have in the store at this moment
StatusNow(s) == [n \in 1..Len(s.reachOuts) |-> s.reachOuts[n].status]

\* WhatsAppService.sendMessage; seen[i] is what the store held when out[i]
\* was handed to WhatsApp
SendMessage(s, jid, kind) ==
    [s EXCEPT !.out = Append(@, [to |-> jid, kind |-> kind]),
              !.seen = Append(@, StatusNow(s))]

\* whether a message of this kind was handed to WhatsApp for jid
Sent(s, jid, kind) == \E i \in 1..Len(s.out) : s.out[i] = [to |-> jid, kind |-> kind]

\* UserService.saveMessage
SaveMessage(s, jid, kind) == [s EXCEPT !.saved = Append(@, [jid |-> jid, kind |-> kind])]

\* -------------------------------------------------------------- UserService
NewUserDoc(jid) == [_id |-> NewOid(jid), type |-> "new", currentReachout |-> Null]

FindOrCreateUser(s, jid) ==
    IF jid \in DOMAIN s.users THEN s
    ELSE [s EXCEPT !.users = @ @@ (jid :> NewUserDoc(jid))]

ApplyPatch(doc, patch) ==
    [f \in DOMAIN doc |-> IF f \in DOMAIN patch THEN patch[f] ELSE doc[f]]

UpdateUser(s, userId, patch) ==
    LET hit == {k \in DOMAIN s.users : s.users[k]._id = userId}
    IN  IF hit = {} THEN s
        ELSE LET k == CHOOSE k \in hit : TRUE
             IN  [s EXCEPT !.users[k] = ApplyPatch(@, patch)]

FindPotentialCandidates(s) ==
    {k \in DOMAIN s.users : s.users[k].type = "idol" /\ s.users[k].currentReachout = Null}

\* ----------------------------------------------------------- ReachOutService
CreateReachOut(s, data) == [s EXCEPT !.reachOuts = Append(@, data)]

\* ids of the held ReachOuts of a target, in ascending creation order
RECURSIVE HeldFrom(_, _, _)
HeldFrom(s, userId, i) ==
    IF i > Len(s.reachOuts) THEN <<>>
    ELSE IF s.reachOuts[i].targetId = userId /\ s.reachOuts[i].status = "hold"
         THEN <<i>> \o HeldFrom(s, userId, i + 1)
         ELSE HeldFrom(s, userId, i + 1)

\* the same held ids in descending creation order
RECURSIVE HeldDownFrom(_, _, _)
HeldDownFrom(s, userId, i) ==
    IF i < 1 THEN <<>>
    ELSE IF s.reachOuts[i].targetId = userId /\ s.reachOuts[i].status = "hold"
         THEN <<i>> \o HeldDownFrom(s, userId, i - 1)
         ELSE HeldDownFrom(s, userId, i - 1)

FindHeldNewestFirst(s, userId) == HeldDownFrom(s, userId, Len(s.reachOuts))

FindHeldReachOutsForUser(s, userId) == HeldFrom(s, userId, 1)

UpdateReachOutStatus(s, reachOutId, newStatus) ==
    IF reachOutId \in 1..Len(s.reachOuts)
    THEN [s EXCEPT !.reachOuts[reachOutId].status = newStatus]
    ELSE s

UpdateReachOutUserInfo(s, reachOutId, userInfo) ==
    IF reachOutId \in 1..Len(s.reachOuts)
    THEN [s EXCEPT !.reachOuts[reachOutId].userInfo = userInfo]
    ELSE s

\* -------------------------------------------------------------- QueryService
UpdateQueryStatus(s, queryId, newStatus) ==
    IF queryId \in 1..Len(s.queries)
    THEN [s EXCEPT !.queries[queryId].status = newStatus, !.qwrites = @ + 1]
    ELSE s

QualifyCount(s, queryId) ==
    Cardinality({i \in 1..Len(s.reachOuts) :
        s.reachOuts[i].queryId = queryId /\ s.reachOuts[i].status = "qualify"})

TotalCount(s, queryId) ==
    Cardinality({i \in 1..Len(s.reachOuts) : s.reachOuts[i].queryId = queryId})

\* qualifyCount >= reachOuts.length / 2
AtLeastHalf(s, queryId) == 2 * QualifyCount(s, queryId) >= TotalCount(s, queryId)

\* qualifyCount > reachOuts.length / 2, over the rationals
MoreThanHalf(s, queryId) == 2 * QualifyCount(s, queryId) > TotalCount(s, queryId)

IsQuerySuccessful(s, queryId) ==
    IF MoreThanHalf(s, queryId)
    THEN [s |-> UpdateQueryStatus(s, queryId, "success"), ret |-> TRUE]
    ELSE [s |-> s, ret |-> FALSE]

\* ------------------------------------------------ OutreachService: the sweep
\* what findHeldReachOutsForUser returns: the held documents, oldest first,
\* each with its query populated (a snapshot taken when the sweep starts)
HeldSnapshot(s, jid) ==
    LET ids == FindHeldReachOutsForUser(s, jid)
    IN  [n \in 1..Len(ids) |->
            [_id |-> ids[n],
             type |-> s.reachOuts[ids[n]].type,
             author_type |-> s.queries[s.reachOuts[ids[n]].queryId].author_type]]

\* the author's own type
AuthorType(author_type) == author_type

\* the user type an opened ask gives its target
AskUserType(author_type) == IF author_type = "hr" THEN "roc" ELSE "rof"

\* the 'ask' branch of the sweep's loop body: the user is engaged first, the
\* ReachOut is marked init after the opening message has been sent
SweepAskEngage(s, userId, reachOut) ==
    UpdateUser(s, userId, [type |-> AskUserType(reachOut.author_type),
                           currentReachout |-> reachOut._id])

SweepAskInit(s, reachOut) ==
    LET jid == s.reachOuts[reachOut._id].targetId
        s1  == SendMessage(SaveMessage(s, jid, "ask"), jid, "ask")
    IN  UpdateReachOutStatus(s1, reachOut._id, "init")

SweepAsk(s, userId, reachOut) ==
    SweepAskInit(SweepAskEngage(s, userId, reachOut), reachOut)

\* the 'notify' branch of the sweep's loop body
SweepNotify(s, userId, reachOut) ==
    LET jid == s.reachOuts[reachOut._id].targetId
        s1  == UpdateReachOutStatus(s, reachOut._id, "qualify")
    IN  SendMessage(SaveMessage(s1, jid, "notify"), jid, "notify")

\* for (const reachOut of reachOuts): an ask returns, a notify continues
RECURSIVE SweepLoop(_, _, _)
SweepLoop(s, userId, held) ==
    IF held = <<>> THEN s
    ELSE IF Head(held).type = "ask"
         THEN SweepAsk(s, userId, Head(held))
         ELSE SweepLoop(SweepNotify(s, userId, Head(held)), userId, Tail(held))

\* checkQuery(user): queryService.getHeldQeryByAuthorId is not a function of
\* QueryService, so the call rejects with a TypeError before it reads, saves
\* or sends anything; checkReachOut does not await it
CheckQuery(s, jid) == s

\* checkReachOut with the framing message sent before the list is looked at
CheckReachOutFramesFirst(s, jid) ==
    LET held == HeldSnapshot(s, jid)
        s1   == SendMessage(FindOrCreateUser(s, jid), jid, "framing")
    IN  [s |-> s1, ret |-> Len(held) > 0]

\* checkReachOut returns ret
Returned(s, jid, ret) == [s EXCEPT !.sweeps = Append(@, [jid |-> jid, ret |-> ret])]

CheckReachOut(s, jid) ==
    LET held == HeldSnapshot(s, jid)
        s1   == CheckQuery(FindOrCreateUser(s, jid), jid)
        user == s1.users[jid]
    IN  IF Len(held) > 0
        THEN [s |-> Returned(SweepLoop(SendMessage(s1, jid, "framing"), user._id, held),
                             jid, TRUE),
              ret |-> TRUE]
        ELSE [s |-> Returned(s1, jid, FALSE), ret |-> FALSE]

\* the sweep's loop when a store call of the ask branch rejects after the
\* user has been engaged (saveMessage's cache write or updateReachOutStatus):
\* the loop is left for the catch block with the ReachOut still in hold
RECURSIVE SweepLoopFaulty(_, _, _)
SweepLoopFaulty(s, userId, held) ==
    IF held = <<>> THEN s
    ELSE IF Head(held).type = "ask"
         THEN SweepAskEngage(s, userId, Head(held))
         ELSE SweepLoopFaulty(SweepNotify(s, userId, Head(held)), userId, Tail(held))

\* checkReachOut ending in its catch block, which returns false
CheckReachOutFaulty(s, jid) ==
    LET held == HeldSnapshot(s, jid)
        s1   == CheckQuery(FindOrCreateUser(s, jid), jid)
        user == s1.users[jid]
    IN  IF \E n \in 1..Len(held) : held[n].type = "ask"
        THEN [s |-> Returned(SweepLoopFaulty(SendMessage(s1, jid, "framing"),
                                             user._id, held), jid, FALSE),
              ret |-> FALSE]
        ELSE CheckReachOut(s, jid)

\* ------------------------------------- OutreachService: session-end branches
NoType == "none"

SetNewType(s, jid, newUserType) ==
    LET s1 == FindOrCreateUser(s, jid)
    IN  UpdateUser(s1, s1.users[jid]._id, [type |-> newUserType])

\* the idol branch applying the new type whatever the sweep returned
HandleIdolUserApplies(s, jid, newUserType) ==
    LET c == CheckReachOut(s, jid)
    IN  IF newUserType = NoType THEN c.s
        ELSE SetNewType(c.s, jid, newUserType)

\* what handleIdolUser returns
IdolResult(s, jid, newUserType) ==
    IF CheckReachOut(s, jid).ret THEN "reachOuts sent"
    ELSE IF newUserType = NoType THEN "Please specify"
    ELSE "now reply as established"

HandleIdolUser(s, jid, newUserType) ==
    LET c == CheckReachOut(s, jid)
    IN  IF c.ret THEN c.s
        ELSE IF newUserType = NoType THEN c.s
        ELSE SetNewType(c.s, jid, newUserType)

\* verdict: the classifier's answer, trimmed and lower-cased
Verdicts == {"qualify", "fail", "other"}

\* the writes handleReachOutUser makes for the classifier's verdict
ReachOutVerdict(s, rid, verdict) ==
    IF verdict = "qualify"
    THEN UpdateReachOutUserInfo(UpdateReachOutStatus(s, rid, "qualify"), rid, "generated")
    ELSE UpdateReachOutStatus(s, rid, "fail")

\* no release
NotReleased(s, userId) == s

\* the release of the user at the end of handleReachOutUser
ReleaseUser(s, userId) == UpdateUser(s, userId, [type |-> "idol", currentReachout |-> Null])

\* every verdict is taken for a terminal one
NeverUnresolved(verdict) == FALSE

\* the else branch: the verdict is neither qualify nor fail
Unresolved(verdict) == verdict \notin {"qualify", "fail"}

HandleReachOutUser(s, jid, verdict) ==
    LET s1   == FindOrCreateUser(s, jid)
        user == s1.users[jid]
        rid  == user.currentReachout
    IN  IF rid \notin 1..Len(s1.reachOuts) THEN s1   \* reachOut is null: TypeError
        ELSE
        LET reachOut == s1.reachOuts[rid]
            query    == s1.queries[reachOut.queryId]
            s2 == ReachOutVerdict(s1, rid, verdict)
            done == IsQuerySuccessful(s2, reachOut.queryId)
            s3 == IF done.ret
                  THEN LET a == FindOrCreateUser(done.s, query.author_id)
                       IN  IF a.users[query.author_id].type = "idol"
                           THEN CheckReachOut(a, query.author_id).s
                           ELSE a
                  ELSE done.s
            s4 == ReleaseUser(s3, user._id)
        IN  IF Unresolved(verdict) THEN s1
            ELSE CheckReachOut(s4, jid).s

HandleProfileUpdate(s, jid) ==
    LET s1 == FindOrCreateUser(s, jid)
        s2 == UpdateUser(s1, s1.users[jid]._id, [type |-> "idol", metadata |-> "kept"])
    IN  CheckReachOut(s2, jid).s

\* ---------------------------------------------- OutreachService: makeReachOut
\* a candidate is named by its phone; BadPhone is a missing or too short one
BadPhone == 0
Candidates == 0..NJids
CandidateJid(phone) == Jid(phone)

\* the author lookup without the check of the author's type
AnyAuthor(s, authorId) ==
    IF ~IsObjectId(authorId) THEN {}
    ELSE {k \in DOMAIN s.users : s.users[k]._id = authorId}

\* QueryService.createQuery: the author is looked up by _id
QueryAuthor(s, authorId) ==
    IF ~IsObjectId(authorId) THEN {}     \* CastError
    ELSE {k \in DOMAIN s.users :
            s.users[k]._id = authorId /\ s.users[k].type \in {"hr", "client"}}

CreateQuery(s, authorId) ==
    LET author == s.users[CHOOSE k \in QueryAuthor(s, authorId) : TRUE]
    IN  [s EXCEPT !.queries = Append(@, [author_id |-> authorId,
                                          author_type |-> author.type,
                                          status |-> "init"])]

\* the decision taken on the author's type alone
ReachOutKindByAuthor(author_type, userType) ==
    IF author_type = "client" THEN "ask" ELSE "notify"

ReachOutKind(author_type, userType) ==
    IF author_type = "client" \/ (author_type = "hr" /\ userType = "new")
    THEN "ask" ELSE "notify"

\* whether makeReachOut's loop skips the candidate
SkipCandidate(authorId, phone) ==
    phone = BadPhone \/ CandidateJid(phone) = authorId

\* the held ReachOut makeReachOut saves for a candidate whose type it read
HoldReachOut(s, queryId, jid, userType) ==
    LET kind == ReachOutKind(s.queries[queryId].author_type, userType)
    IN  CreateReachOut(s, [targetId |-> jid, queryId |-> queryId,
                           status |-> "hold", type |-> kind,
                           userInfo |-> IF kind = "ask" THEN "" ELSE "generated"])

\* the body of makeReachOut's loop for one candidate
FanOutOne(s, queryId, authorId, phone) ==
    IF SkipCandidate(authorId, phone) THEN s
    ELSE
    LET jid  == CandidateJid(phone)
        s1   == FindOrCreateUser(s, jid)
        user == s1.users[jid]
        s2   == UpdateUser(s1, user._id, [metadata |-> "candidate"])
        s3   == HoldReachOut(s2, queryId, jid, user.type)
    IN  CheckReachOut(s3, jid).s

RECURSIVE FanOut(_, _, _, _)
FanOut(s, queryId, authorId, candidates) ==
    IF candidates = <<>> THEN s
    ELSE FanOut(FanOutOne(s, queryId, authorId, Head(candidates)),
                queryId, authorId, Tail(candidates))

\* ret is FALSE when createQuery threw
MakeReachOut(s, authorId, candidates) ==
    IF QueryAuthor(s, authorId) = {} THEN [s |-> s, ret |-> FALSE]
    ELSE LET s1 == CreateQuery(s, authorId)
         IN  [s |-> FanOut(s1, Len(s1.queries), authorId, candidates), ret |-> TRUE]

\* the step of one candidate's path that throws: the user lookup or creation,
\* the classifier call for userInfo, the ReachOut creation, the target's sweep
Faults == {"lookup", "info", "create", "sweep"}

\* the loop body for a candidate one of whose steps throws; aborted is whether
\* the error leaves makeReachOut. generateReply catches the classifier's error
\* and checkReachOut its own, the two store calls catch nothing
FanOutOneFaulty(s, queryId, authorId, phone, fault) ==
    IF SkipCandidate(authorId, phone) THEN [s |-> s, aborted |-> FALSE]
    ELSE
    LET jid  == CandidateJid(phone)
        s1   == FindOrCreateUser(s, jid)
        user == s1.users[jid]
        s2   == UpdateUser(s1, user._id, [metadata |-> "candidate"])
        s3   == HoldReachOut(s2, queryId, jid, user.type)
    IN  CASE fault = "lookup" -> [s |-> s, aborted |-> TRUE]
          [] fault = "create" -> [s |-> s2, aborted |-> TRUE]
          [] fault = "info"   -> [s |-> CheckReachOut(s3, jid).s, aborted |-> FALSE]
          [] fault = "sweep"  -> [s |-> Returned(s3, jid, FALSE), aborted |-> FALSE]

\* makeReachOut's loop from candidate i on, the candidate at position at failing
RECURSIVE FanOutFaulty(_, _, _, _, _, _, _)
FanOutFaulty(s, queryId, authorId, candidates, i, at, fault) ==
    IF i > Len(candidates) THEN s
    ELSE IF i = at
    THEN LET r == FanOutOneFaulty(s, queryId, authorId, candidates[i], fault)
         IN  IF r.aborted THEN r.s
             ELSE FanOutFaulty(r.s, queryId, authorId, candidates, i + 1, at, fault)
    ELSE FanOutFaulty(FanOutOne(s, queryId, authorId, candidates[i]),
                      queryId, authorId, candidates, i + 1, at, fault)

MakeReachOutFaulty(s, authorId, candidates, at, fault) ==
    IF QueryAuthor(s, authorId) = {} THEN s
    ELSE LET s1 == CreateQuery(s, authorId)
         IN  FanOutFaulty(s1, Len(s1.queries), authorId, candidates, 1, at, fault)

\* the candidate list handleQuery passes
HardcodedCandidates == <<1>>

HandleQuery(s, jid) ==
    LET m == MakeReachOut(s, jid, HardcodedCandidates)
    IN  IF ~m.ret THEN m.s
        ELSE LET s1 == FindOrCreateUser(m.s, jid)
                 s2 == UpdateUser(s1, s1.users[jid]._id,
                                  [type |-> "idol", currentReachout |-> Null])
             IN  CheckReachOut(s2, jid).s

\* ------------------------------------------------- handleEndOfSession switch
\* the newUserType arguments tried: none, the four roles the prompts name,
\* and two types the handler accepts although only the coordinator should
\* set them (the argument is not validated)
NewTypes == {NoType, "candidate", "freelancer", "client", "hr", "idol", "roc"}

\* the switch of handleEndOfSession
SessionBranch(s, jid, userType, newUserType, verdict) ==
    CASE userType = "new" ->
            IF newUserType = NoType THEN s ELSE SetNewType(s, jid, newUserType)
      [] userType = "idol" -> HandleIdolUser(s, jid, newUserType)
      [] userType \in {"roc", "rof"} -> HandleReachOutUser(s, jid, verdict)
      [] userType \in {"candidate", "freelancer"} -> HandleProfileUpdate(s, jid)
      [] userType \in {"client", "hr"} -> HandleQuery(s, jid)
      [] OTHER -> s

\* what handleEndOfSession returns: after the switch the notice is sent, then
\* the saveMessage argument reads user.jid, and user is not in scope there
\* (it is declared inside the switch): a ReferenceError, which the catch
\* turns into the error result before saveMessage is called
Outcome(s, jid, userType, newUserType, verdict) ==
    [success |-> FALSE, status |-> "Error"]

HandleEndOfSession(s, jid, userType, newUserType, verdict) ==
    SendMessage(SessionBranch(s, jid, userType, newUserType, verdict), jid, "notice")

\* handleIncomingMessage up to the general reply: the sender is loaded or
\* created; for an engaged sender the active ReachOut's author is loaded too.
\* ok is FALSE when that lookup throws (no reply, hence no tool call).
LoadSender(s, jid) ==
    LET s1   == FindOrCreateUser(s, jid)
        user == s1.users[jid]
    IN  IF user.type \notin {"rof", "roc"} THEN [s |-> s1, ok |-> TRUE]
        ELSE IF user.currentReachout \notin 1..Len(s1.reachOuts)
             THEN [s |-> s1, ok |-> FALSE]
             ELSE [s |-> FindOrCreateUser(s1,
                      s1.queries[s1.reachOuts[user.currentReachout].queryId].author_id),
                   ok |-> TRUE]

\* -------------------------------------------------- attachment triage flows
MediaTypes == {"none", "linkedinUrl", "document", "url"}

\* a flow's result: cont is what it returns, threw whether it raised instead
FlowResult(s, cont, threw) == [s |-> s, cont |-> cont, threw |-> threw]

Told(s, jid, kind) == SaveMessage(SendMessage(s, jid, kind), jid, kind)

\* its first statement is return true
HandleLinkedinFlow(s, jid, positive) == FlowResult(s, TRUE, FALSE)

HandleCandidateDocFlow(s, jid, positive) ==
    LET s1 == Told(s, jid, "wait")
    IN  IF positive
        THEN FlowResult(SaveMessage(Told(s1, jid, "received"), jid, "next"), TRUE, FALSE)
        ELSE FlowResult(Told(s1, jid, "rejection"), FALSE, FALSE)

\* the positive branch sends gotResumeMssg, a name this function never declares
HandleFreelancerDataFlow(s, jid, positive) ==
    LET s1 == Told(s, jid, "wait")
    IN  IF positive
        THEN FlowResult(s1, FALSE, TRUE)
        ELSE FlowResult(Told(s1, jid, "rejection"), FALSE, FALSE)

\* the if / else-if chain of handleIncomingMessage: stop is whether it returns
Triage(s, jid, userType, mediaType, positive) ==
    CASE mediaType = "linkedinUrl" ->
            LET f == HandleLinkedinFlow(s, jid, positive)
            IN  [s |-> f.s, stop |-> ~f.cont, threw |-> f.threw]
      [] mediaType = "document" /\ userType \in {"candidate", "freelancer"} ->
            LET f == HandleCandidateDocFlow(s, jid, positive)
            IN  [s |-> f.s, stop |-> ~f.cont, threw |-> f.threw]
      [] mediaType = "url" /\ userType = "freelancer" ->
            LET f == HandleFreelancerDataFlow(s, jid, positive)
            IN  [s |-> f.s, stop |-> TRUE, threw |-> f.threw]
      [] OTHER -> [s |-> s, stop |-> FALSE, threw |-> FALSE]

\* handleIncomingMessage for a message whose reply requests no tool: reply is
\* whether it returns a general reply, threw whether it raised
HandleIncomingMessage(s, jid, mediaType, positive) ==
    LET s1 == FindOrCreateUser(s, jid)
        s2 == SaveMessage(s1, jid, "inbound")
        t  == Triage(s2, jid, s1.users[jid].type, mediaType, positive)
        l  == LoadSender(t.s, jid)
    IN  IF t.threw \/ t.stop THEN [s |-> t.s, reply |-> FALSE, threw |-> t.threw]
        ELSE IF ~l.ok THEN [s |-> l.s, reply |-> FALSE, threw |-> TRUE]
        ELSE [s |-> SaveMessage(l.s, jid, "reply"), reply |-> TRUE, threw |-> FALSE]

\* ------------------------------------------------------------ typing presence
\* composing, paused: presence updates sent; handled: handleIncomingMessage
\* has returned; raised: it has thrown
PresenceEvents == {"composing", "paused", "handled", "raised"}

Presence(s, ev) == [s EXCEPT !.presence = Append(@, ev)]

\* startTyping(jid) is called without durationMs, whose default arms a timer
\* that calls stopTyping; slow is whether the handling outlasts that timer
StartTyping(s, slow) ==
    IF slow THEN Presence(Presence(s, "composing"), "paused")
    ELSE Presence(s, "composing")

StopTyping(s) == Presence(s, "paused")

\* handleMessagesUpsert from startTyping on; no try surrounds the handling,
\* so after an exception only the timer stops the typing
HandleMessagesUpsert(s, jid, mediaType, positive, slow) ==
    LET s1 == StartTyping(s, slow)
        h  == HandleIncomingMessage(s1, jid, mediaType, positive)
    IN  IF h.threw
        THEN LET s2 == Presence(h.s, "raised")
             IN  IF slow THEN s2 ELSE StopTyping(s2)   \* the timer, still armed
        ELSE LET s2 == StopTyping(Presence(h.s, "handled"))
             IN  IF h.reply THEN SendMessage(s2, jid, "reply") ELSE s2

\* --------------------------------------------------------------- outreach job
OutreachJob(s, queryId) ==
    IF queryId \notin 1..Len(s.queries) THEN s
    ELSE IF FindPotentialCandidates(s) = {}
         THEN UpdateQueryStatus(s, queryId, "closed_no_candidates")
         ELSE s     \* qualifyUserForReachOut(query, [...]) throws TypeError

\* A request in flight, stopped at one of its awaits. pc is the await it
\* will resume from; the other fields are the locals it carries across awaits.
NoJid == <<"none", 0>>
\* no entry of the map _active for a jid, and no timer
NoEntry == [interval |-> Null, timeout |-> Null]
\* a startTyping, stopTyping or stopAll call that is not running
IdleTyping == [pc |-> "idle", jid |-> NoJid, timed |-> FALSE, todo |-> <<>>]
\* TypingManager after construction: the map _active is empty, no timer is
\* live; intervals and timeouts are the live timers of the event loop, made
\* counts the timers created, presence is the last update sent for a jid
NoTyping == [active |-> [jid \in Jids |-> NoEntry], intervals |-> {}, timeouts |-> {},
             made |-> 0, presence |-> [jid \in Jids |-> "none"],
             calls |-> [c \in 1..MaxTypingCalls |-> IdleTyping]]
\* no document triaged yet
NoDoc == [op |-> "none"]
\* what executeWithRetry threw: nothing, errors[i] for thrown = i, or its own
\* "exhausted retries" error
NotThrown == 0
ExhaustedError == -1
\* executeWithRetry not running
IdleRetry == [pc |-> "idle", maxAttempts |-> 0, attempt |-> 0, invocations |-> 0,
              errors |-> <<>>, onRetries |-> 0, waits |-> 0, thrown |-> NotThrown]
\* a UserService call that is not running
IdleCall == [pc |-> "idle", jid |-> NoJid, doc |-> Null, patch |-> <<>>]
IdleProc == [pc |-> "idle", jid |-> NoJid, userId |-> NoJid, held |-> <<>>,
             cont |-> "done", qjid |-> NoJid, quserId |-> NoJid, rid |-> Null,
             verdict |-> "other", q |-> Null, cands |-> <<>>, author |-> NoJid,
             utype |-> NoType]

Init ==
    /\ users = <<>>
    /\ reachOuts = <<>>
    /\ queries = <<>>
    /\ lastCall = NoCall
    /\ procs = [p \in 1..MaxProcs |-> IdleProc]
    /\ coheld = {}
    /\ userCache = <<>>
    /\ messages = <<>>
    /\ history = [jid \in Jids |-> <<>>]
    /\ calls = [c \in 1..MaxCalls |-> IdleCall]
    /\ retry = IdleRetry
    /\ triage = NoDoc
    /\ typing = NoTyping

\* a handler run from its call to its return with nothing interleaved
Commit(s, call) ==
    /\ users' = s.users
    /\ reachOuts' = s.reachOuts
    /\ queries' = s.queries
    /\ lastCall' = call
    /\ UNCHANGED <<procs, coheld, cacheVars, retry, triage, typing>>

\* an inbound message whose reply requests no tool
ReceiveMessage(jid) ==
    Commit(LoadSender(St, jid).s, NoCall)

\* an inbound message with an attachment, through the triage flows
ReceiveMedia(jid, mediaType, positive, slow) ==
    Commit(HandleMessagesUpsert(St, jid, mediaType, positive, slow), NoCall)

\* an inbound message whose reply requests handleEndOfSession(userType, newUserType)
EndOfSession(jid, userType, newUserType, verdict) ==
    LET l == LoadSender(St, jid)
    IN  /\ l.ok
        /\ Commit(HandleEndOfSession(l.s, jid, userType, newUserType, verdict), NoCall)

EndOfSessionNew(jid, newUserType) == EndOfSession(jid, "new", newUserType, "other")

EndOfSessionIdol(jid, newUserType) == EndOfSession(jid, "idol", newUserType, "other")

EndOfSessionReachOut(jid, userType, verdict) == EndOfSession(jid, userType, NoType, verdict)

EndOfSessionProfile(jid, userType) == EndOfSession(jid, userType, NoType, "other")

EndOfSessionQuery(jid, userType) == EndOfSession(jid, userType, NoType, "other")

EndOfSessionDefault(jid) == EndOfSession(jid, "unknown", NoType, "other")

CallCheckReachOut(jid) ==
    Commit(CheckReachOut(St, jid).s, NoCall)

CallMakeReachOut(authorId, candidates) ==
    /\ Len(queries) < MaxQueries
    /\ Len(reachOuts) + Len(candidates) <= MaxReachOuts
    /\ Commit(MakeReachOut(St, authorId, candidates).s, NoCall)

\* makeReachOut while a store, the classifier or WhatsApp is failing
CallMakeReachOutFaulty(authorId, candidates, at, fault) ==
    /\ Len(queries) < MaxQueries
    /\ Len(reachOuts) + Len(candidates) <= MaxReachOuts
    /\ at <= Len(candidates)
    /\ Commit(MakeReachOutFaulty(St, authorId, candidates, at, fault), NoCall)

CallIsQuerySuccessful(q) ==
    LET r == IsQuerySuccessful(St, q)
    IN  Commit(r.s, [op |-> "isQuerySuccessful", queryId |-> q, ret |-> r.ret,
                     qwrites |-> r.s.qwrites,
                     again |-> lastCall.op = "isQuerySuccessful" /\ lastCall.queryId = q,
                     before |-> lastCall.ret])

RunOutreachJob(q) ==
    Commit(OutreachJob(St, q), NoCall)

CandidateLists ==
    UNION {[1..n -> Candidates] : n \in 0..MaxCandidates}

FaultyCandidateLists ==
    UNION {[1..n -> Candidates] : n \in 1..MaxFaultyCandidates}

AuthorIds == Jids \cup {Oid(n) : n \in 1..NJids}

Next ==
    \/ \E jid \in Jids : ReceiveMessage(jid)
    \/ \E jid \in Jids, mt \in MediaTypes, pos \in BOOLEAN, slow \in BOOLEAN :
          ReceiveMedia(jid, mt, pos, slow)
    \/ \E jid \in Jids, nt \in NewTypes : EndOfSessionNew(jid, nt)
    \/ \E jid \in Jids, nt \in NewTypes : EndOfSessionIdol(jid, nt)
    \/ \E jid \in Jids, ut \in {"roc", "rof"}, v \in Verdicts : EndOfSessionReachOut(jid, ut, v)
    \/ \E jid \in Jids, ut \in {"candidate", "freelancer"} : EndOfSessionProfile(jid, ut)
    \/ \E jid \in Jids, ut \in {"client", "hr"} : EndOfSessionQuery(jid, ut)
    \/ \E jid \in Jids : EndOfSessionDefault(jid)
    \/ \E jid \in Jids : CallCheckReachOut(jid)
    \/ \E a \in AuthorIds, cs \in CandidateLists : CallMakeReachOut(a, cs)
    \/ \E a \in AuthorIds, cs \in FaultyCandidateLists, at \in 1..MaxFaultyCandidates, f \in Faults :
          CallMakeReachOutFaulty(a, cs, at, f)
    \/ \E q \in 1..MaxQueries : CallIsQuerySuccessful(q)
    \/ \E q \in 1..MaxQueries : RunOutreachJob(q)

Spec == Init /\ [][Next]_vars

\* ============================================ requests interleaved at awaits
\* coheld is a history variable: the pairs <<older, newer>> of ReachOuts of
\* one target that were in hold together (recorded when the newer is saved).
Step(s, p, pr, pairs) ==
    /\ users' = s.users
    /\ reachOuts' = s.reachOuts
    /\ queries' = s.queries
    /\ lastCall' = NoCall
    /\ procs' = [procs EXCEPT ![p] = pr]
    /\ coheld' = coheld \cup pairs
    /\ UNCHANGED <<cacheVars, retry, triage, typing>>

\* checkReachOut returns to its caller
Return(pr) ==
    CASE pr.cont = "fanout" ->
            [pr EXCEPT !.pc = "f_next", !.jid = NoJid, !.userId = NoJid, !.held = <<>>,
                       !.cont = "done"]
      [] pr.cont = "release" ->
            [pr EXCEPT !.pc = "q_release", !.jid = NoJid, !.userId = NoJid,
                       !.held = <<>>, !.cont = "done"]
      [] OTHER -> IdleProc

\* a message from a not yet known sender that ends with the new branch
Register(jid, newUserType) ==
    /\ jid \notin DOMAIN users
    /\ EndOfSessionNew(jid, newUserType)

\* checkReachOut(jid) is called on its own (the idol branch, a direct call)
StartSweep(p, jid) ==
    /\ procs[p].pc = "idle"
    /\ jid \in DOMAIN users
    /\ Step(St, p, [IdleProc EXCEPT !.pc = "sweep", !.jid = jid], {})

\* findHeldReachOutsForUser, findOrCreateUser
SweepSnapshot(p) ==
    LET pr   == procs[p]
        held == HeldSnapshot(St, pr.jid)
        s1   == FindOrCreateUser(St, pr.jid)
    IN  /\ pr.pc = "sweep"
        /\ Step(s1, p,
                IF held = <<>> THEN Return(pr)
                ELSE [pr EXCEPT !.pc = "loop", !.held = held,
                                !.userId = s1.users[pr.jid]._id], {})

\* loop body, 'ask': updateUser(type, currentReachout)
SweepEngage(p) ==
    LET pr == procs[p]
    IN  /\ pr.pc = "loop"
        /\ Head(pr.held).type = "ask"
        /\ Step(SweepAskEngage(St, pr.userId, Head(pr.held)), p,
                [pr EXCEPT !.pc = "engaged"], {})

\* loop body, 'ask': updateReachOutStatus(init), return true
SweepOpen(p) ==
    LET pr == procs[p]
    IN  /\ pr.pc = "engaged"
        /\ Step(SweepAskInit(St, Head(pr.held)), p, Return(pr), {})

\* loop body, 'notify': updateReachOutStatus(qualify), next item
SweepAcknowledge(p) ==
    LET pr == procs[p]
    IN  /\ pr.pc = "loop"
        /\ Head(pr.held).type = "notify"
        /\ Step(SweepNotify(St, pr.userId, Head(pr.held)), p,
                IF Tail(pr.held) = <<>> THEN Return(pr)
                ELSE [pr EXCEPT !.held = Tail(@)], {})

\* a message from jid whose reply calls handleEndOfSession(roc|rof):
\* handleReachOutUser reads the user, the active ReachOut and the verdict
StartQualify(p, jid, verdict) ==
    LET l == LoadSender(St, jid)
    IN  /\ procs[p].pc = "idle"
        /\ jid \in DOMAIN users
        /\ l.ok
        /\ users[jid].currentReachout \in 1..Len(reachOuts)
        /\ Step(l.s, p,
                [IdleProc EXCEPT !.pc = "q_verdict", !.qjid = jid,
                                 !.quserId = users[jid]._id,
                                 !.rid = users[jid].currentReachout,
                                 !.q = reachOuts[users[jid].currentReachout].queryId,
                                 !.verdict = verdict], {})

\* updateReachOutStatus(qualify | fail)
QualifyVerdict(p) ==
    LET pr == procs[p]
    IN  /\ pr.pc = "q_verdict"
        /\ Step(ReachOutVerdict(St, pr.rid, pr.verdict), p,
                [pr EXCEPT !.pc = "q_check"], {})

\* isQuerySuccessful, and the author's sweep when the query is done
QualifyCheck(p) ==
    LET pr     == procs[p]
        done   == IsQuerySuccessful(St, pr.q)
        author == queries[pr.q].author_id
        a      == FindOrCreateUser(done.s, author)
    IN  /\ pr.pc = "q_check"
        /\ IF done.ret
           THEN Step(a, p,
                     IF a.users[author].type = "idol"
                     THEN [pr EXCEPT !.pc = "sweep", !.jid = author, !.cont = "release"]
                     ELSE [pr EXCEPT !.pc = "q_release"], {})
           ELSE Step(done.s, p, [pr EXCEPT !.pc = "q_release"], {})

\* the release with no sweep after it
QualifyReleaseNoSweep(p) ==
    LET pr == procs[p]
    IN  /\ pr.pc = "q_release"
        /\ Step(ReleaseUser(St, pr.quserId), p, IdleProc, {})

\* updateUser(idol, null), then checkReachOut(jid)
QualifyRelease(p) ==
    LET pr == procs[p]
    IN  /\ pr.pc = "q_release"
        /\ Step(ReleaseUser(St, pr.quserId), p,
                [IdleProc EXCEPT !.pc = "sweep", !.jid = pr.qjid], {})

\* ReachOuts the fan-outs in flight have still to save
RECURSIVE Reserved(_)
Reserved(n) ==
    IF n = 0 THEN 0
    ELSE Reserved(n - 1) + Len(procs[n].cands)
                         + (IF procs[n].pc = "f_make" THEN 1 ELSE 0)

\* makeReachOut(authorId, candidates): createQuery
StartFanOut(p, authorId, candidates) ==
    /\ procs[p].pc = "idle"
    /\ Len(queries) < ConcMaxQueries
    /\ Len(reachOuts) + Reserved(MaxProcs) + Len(candidates) <= ConcMaxReachOuts
    /\ QueryAuthor(St, authorId) # {}
    /\ LET s1 == CreateQuery(St, authorId)
       IN  Step(s1, p, [IdleProc EXCEPT !.pc = "f_next", !.q = Len(s1.queries),
                                        !.author = authorId, !.cands = candidates], {})

\* loop head: skip the candidate, or findOrCreateUser
FanOutLoad(p) ==
    LET pr  == procs[p]
    IN  /\ pr.pc = "f_next"
        /\ IF pr.cands = <<>> THEN Step(St, p, IdleProc, {})
           ELSE IF SkipCandidate(pr.author, Head(pr.cands))
                THEN Step(St, p, [pr EXCEPT !.cands = Tail(@)], {})
                ELSE LET jid == CandidateJid(Head(pr.cands))
                         s1  == FindOrCreateUser(St, jid)
                     IN  Step(s1, p, [pr EXCEPT !.pc = "f_make", !.jid = jid,
                                                !.utype = s1.users[jid].type,
                                                !.cands = Tail(@)], {})

\* createReachOut(hold), then checkReachOut(user.jid)
FanOutSave(p) ==
    LET pr == procs[p]
    IN  /\ pr.pc = "f_make"
        /\ Step(HoldReachOut(St, pr.q, pr.jid, pr.utype), p,
                [pr EXCEPT !.pc = "sweep", !.cont = "fanout", !.utype = NoType],
                {<<i, Len(reachOuts) + 1>> : i \in {j \in 1..Len(reachOuts) :
                    reachOuts[j].targetId = pr.jid /\ reachOuts[j].status = "hold"}})

ConcNewTypes == {"client", "hr"}
ConcCandidateLists == UNION {[1..n -> Candidates] : n \in 0..ConcMaxCandidates}

NextConc ==
    \/ \E jid \in Jids, nt \in ConcNewTypes : Register(jid, nt)
    \/ \E p \in 1..MaxProcs, jid \in Jids : StartSweep(p, jid)
    \/ \E p \in 1..MaxProcs : SweepSnapshot(p)
    \/ \E p \in 1..MaxProcs : SweepEngage(p)
    \/ \E p \in 1..MaxProcs : SweepOpen(p)
    \/ \E p \in 1..MaxProcs : SweepAcknowledge(p)
    \/ \E p \in 1..MaxProcs, jid \in Jids, v \in {"qualify", "fail"} : StartQualify(p, jid, v)
    \/ \E p \in 1..MaxProcs : QualifyVerdict(p)
    \/ \E p \in 1..MaxProcs : QualifyCheck(p)
    \/ \E p \in 1..MaxProcs : QualifyRelease(p)
    \/ \E p \in 1..MaxProcs, a \in AuthorIds, cs \in ConcCandidateLists : StartFanOut(p, a, cs)
    \/ \E p \in 1..MaxProcs : FanOutLoad(p)
    \/ \E p \in 1..MaxProcs : FanOutSave(p)

SpecConc == Init /\ [][NextConc]_vars

\* ---- the same requests under the event loop's scheduling
\* the continuation of request p after an await: the event loop runs every
\* continuation whose promise has settled
Continue(p) ==
    \/ SweepSnapshot(p) \/ SweepEngage(p) \/ SweepOpen(p) \/ SweepAcknowledge(p)
    \/ QualifyVerdict(p) \/ QualifyCheck(p) \/ QualifyRelease(p)
    \/ FanOutLoad(p) \/ FanOutSave(p)

\* the engaged user jid ends the conversation with a qualify or fail verdict
TerminalVerdict(jid) ==
    \E p \in 1..MaxProcs, v \in {"qualify", "fail"} : StartQualify(p, jid, v)

\* the candidate lists of the fan-outs followed: they name one target
LiveCandidateLists == {<<1>>}

\* the requests that reach the coordinator through a message: a sender takes
\* a role, an author's query fans out, an engaged user gives a verdict
NextLive ==
    \/ \E jid \in Jids, nt \in ConcNewTypes : Register(jid, nt)
    \/ \E p \in 1..MaxProcs, a \in AuthorIds, cs \in LiveCandidateLists : StartFanOut(p, a, cs)
    \/ \E jid \in Jids : TerminalVerdict(jid)
    \/ \E p \in 1..MaxProcs : Continue(p)

SpecLive ==
    /\ Init /\ [][NextLive]_vars
    /\ \A p \in 1..MaxProcs : WF_vars(Continue(p))
    /\ \A jid \in Jids : SF_vars(TerminalVerdict(jid))

\* ---- isQuerySuccessful stepped at its two awaits, fan-outs run whole
\* what ReachOut.find({ queryId }) returns: the statuses, in creation order
RECURSIVE FoundStatuses(_, _, _)
FoundStatuses(s, queryId, i) ==
    IF i > Len(s.reachOuts) THEN <<>>
    ELSE IF s.reachOuts[i].queryId = queryId
         THEN <<s.reachOuts[i].status>> \o FoundStatuses(s, queryId, i + 1)
         ELSE FoundStatuses(s, queryId, i + 1)

\* the decision on what was found, with the status write left out
SuccessOnNoWrite(s, queryId, found) ==
    [s |-> s,
     ret |-> 2 * Cardinality({i \in 1..Len(found) : found[i] = "qualify"}) > Len(found)]

\* the decision on what was found, and updateQueryStatus(success)
SuccessOn(s, queryId, found) ==
    IF 2 * Cardinality({i \in 1..Len(found) : found[i] = "qualify"}) > Len(found)
    THEN [s |-> UpdateQueryStatus(s, queryId, "success"), ret |-> TRUE]
    ELSE [s |-> s, ret |-> FALSE]

\* isQuerySuccessful: await ReachOut.find
QualifyFind(p) ==
    LET pr == procs[p]
    IN  /\ pr.pc = "q_check"
        /\ Step(St, p, [pr EXCEPT !.pc = "q_found",
                                  !.held = FoundStatuses(St, pr.q, 1)], {})

\* isQuerySuccessful: the count, the status write, and the author's sweep
QualifyDecide(p) ==
    LET pr     == procs[p]
        done   == SuccessOn(St, pr.q, pr.held)
        author == queries[pr.q].author_id
        a      == FindOrCreateUser(done.s, author)
    IN  /\ pr.pc = "q_found"
        /\ IF done.ret
           THEN Step(a, p,
                     IF a.users[author].type = "idol"
                     THEN [pr EXCEPT !.pc = "sweep", !.jid = author, !.cont = "release",
                                     !.held = <<>>]
                     ELSE [pr EXCEPT !.pc = "q_release", !.held = <<>>], {})
           ELSE Step(done.s, p, [pr EXCEPT !.pc = "q_release", !.held = <<>>], {})

NextQualify ==
    \/ \E jid \in Jids, nt \in ConcNewTypes : Register(jid, nt)
    \/ \E a \in AuthorIds, cs \in CandidateLists : CallMakeReachOut(a, cs)
    \/ \E a \in AuthorIds, cs \in FaultyCandidateLists, at \in 1..MaxFaultyCandidates,
          fault \in Faults : CallMakeReachOutFaulty(a, cs, at, fault)
    \/ \E p \in 1..MaxProcs, jid \in Jids : StartSweep(p, jid)
    \/ \E p \in 1..MaxProcs : SweepSnapshot(p)
    \/ \E p \in 1..MaxProcs : SweepEngage(p)
    \/ \E p \in 1..MaxProcs : SweepOpen(p)
    \/ \E p \in 1..MaxProcs : SweepAcknowledge(p)
    \/ \E p \in 1..MaxProcs, jid \in Jids, v \in {"qualify", "fail"} : StartQualify(p, jid, v)
    \/ \E p \in 1..MaxProcs : QualifyVerdict(p)
    \/ \E p \in 1..MaxProcs : QualifyFind(p)
    \/ \E p \in 1..MaxProcs : QualifyDecide(p)
    \/ \E p \in 1..MaxProcs : QualifyRelease(p)

SpecQualify == Init /\ [][NextQualify]_vars

\* ========================================================== TypingManager
TypingStep(t) ==
    /\ typing' = t
    /\ UNCHANGED <<users, reachOuts, queries, lastCall, procs, coheld, cacheVars, retry,
                   triage>>

\* setTimeout(() => this.stopTyping(jid), durationMs) when durationMs is a number
SetTimeout(t, jid, timed) ==
    IF timed
    THEN [t EXCEPT !.made = @ + 1, !.timeouts = @ \cup {<<t.made + 1, jid>>},
                   !.active[jid].timeout = t.made + 1]
    ELSE t

\* stopTyping up to its await: clearInterval, clearTimeout, _active.delete
ClearEntry(t, jid) ==
    LET entry == t.active[jid]
    IN  IF entry = NoEntry THEN t
        ELSE [t EXCEPT !.intervals = @ \ {<<entry.interval, jid>>},
                       !.timeouts = @ \ {<<entry.timeout, jid>>},
                       !.active[jid] = NoEntry]

\* the calls waiting for their 'composing' update to be sent
Composing(t) == {c \in 1..MaxTypingCalls : t.calls[c].pc = "composing"}

\* startTyping(jid, durationMs): an active jid has its duration timer reset
\* and the call returns; otherwise 'composing' is sent and awaited
TypingStart(c, jid, timed) ==
    LET t == typing
    IN  /\ t.calls[c].pc = "idle"
        /\ t.made + 2 * (Cardinality(Composing(t)) + 1) <= MaxTimers
        /\ IF t.active[jid] # NoEntry
           THEN TypingStep(SetTimeout(
                    [t EXCEPT !.timeouts = @ \ {<<t.active[jid].timeout, jid>>},
                              !.active[jid].timeout = Null], jid, timed))
           ELSE TypingStep([t EXCEPT !.calls[c] = [IdleTyping EXCEPT !.pc = "composing",
                                                                     !.jid = jid,
                                                                     !.timed = timed],
                                     !.presence[jid] = "composing"])

\* startTyping after its await: setInterval, setTimeout, _active.set
TypingComposed(c) ==
    LET t   == typing
        jid == t.calls[c].jid
        t1  == [t EXCEPT !.made = @ + 1, !.intervals = @ \cup {<<t.made + 1, jid>>},
                         !.active[jid] = [interval |-> t.made + 1, timeout |-> Null],
                         !.calls[c] = IdleTyping]
    IN  /\ t.calls[c].pc = "composing"
        /\ TypingStep(SetTimeout(t1, jid, t.calls[c].timed))

\* stopTyping(jid) up to its await of the 'paused' update
TypingStop(c, jid) ==
    /\ typing.calls[c].pc = "idle"
    /\ TypingStep([ClearEntry(typing, jid) EXCEPT
                       !.calls[c] = [IdleTyping EXCEPT !.pc = "pausing", !.jid = jid]])

\* the 'paused' update of a stopTyping call has been sent
TypingPaused(c) ==
    /\ typing.calls[c].pc = "pausing"
    /\ TypingStep([typing EXCEPT !.presence[typing.calls[c].jid] = "paused",
                                 !.calls[c] = IdleTyping])

\* stopAll(): the keys of _active are read
StopAll(c) ==
    /\ typing.calls[c].pc = "idle"
    /\ \E jid \in Jids : typing.active[jid] # NoEntry
    /\ \E todo \in [1..Cardinality({jid \in Jids : typing.active[jid] # NoEntry}) -> Jids] :
          /\ \A i, j \in DOMAIN todo : i # j => todo[i] # todo[j]
          /\ \A i \in DOMAIN todo : typing.active[todo[i]] # NoEntry
          /\ TypingStep([typing EXCEPT !.calls[c] = [IdleTyping EXCEPT !.pc = "stopAll",
                                                                       !.todo = todo]])

\* stopAll's loop: await this.stopTyping(jid) for the next key
StopAllNext(c) ==
    LET t    == typing
        todo == t.calls[c].todo
    IN  /\ t.calls[c].pc = "stopAll"
        /\ IF todo = <<>>
           THEN TypingStep([t EXCEPT !.calls[c] = IdleTyping])
           ELSE TypingStep([ClearEntry(t, Head(todo)) EXCEPT
                                !.presence[Head(todo)] = "paused",
                                !.calls[c].todo = Tail(todo)])

\* a live duration timer fires: it calls stopTyping(jid)
TimeoutFires(id, jid) ==
    /\ <<id, jid>> \in typing.timeouts
    /\ TypingStep([ClearEntry([typing EXCEPT !.timeouts = @ \ {<<id, jid>>}], jid)
                       EXCEPT !.presence[jid] = "paused"])

\* a live heartbeat timer fires: 'composing' is sent again
HeartbeatFires(id, jid) ==
    /\ <<id, jid>> \in typing.intervals
    /\ TypingStep([typing EXCEPT !.presence[jid] = "composing"])

NextTyping ==
    \/ \E c \in 1..MaxTypingCalls, jid \in Jids, timed \in BOOLEAN : TypingStart(c, jid, timed)
    \/ \E c \in 1..MaxTypingCalls : TypingComposed(c)
    \/ \E c \in 1..MaxTypingCalls, jid \in Jids : TypingStop(c, jid)
    \/ \E c \in 1..MaxTypingCalls : TypingPaused(c)
    \/ \E c \in 1..MaxTypingCalls : StopAll(c)
    \/ \E c \in 1..MaxTypingCalls : StopAllNext(c)
    \/ \E id \in 1..MaxTimers, jid \in Jids : TimeoutFires(id, jid)
    \/ \E id \in 1..MaxTimers, jid \in Jids : HeartbeatFires(id, jid)

SpecTyping == Init /\ [][NextTyping]_vars

\* ================================================= UserService over Redis
\* ---- the message history: Message collection and the list history:{jid}
Bys == {"user", "model"}

RECURSIVE Reverse(_)
Reverse(seq) == IF seq = <<>> THEN <<>> ELSE Append(Reverse(Tail(seq)), Head(seq))

Min(a, b) == IF a < b THEN a ELSE b

\* redis.lPush and redis.lTrim(key, 0, stop)
LPush(list, entry) == <<entry>> \o list
LTrim(list, stop) == SubSeq(list, 1, Min(Len(list), stop + 1))

\* Message.find({jid}).sort({timestamp: -1}).limit(HISTORY_LENGTH): documents
\* are stored in timestamp order
IsOf(jid, m) == m.jid = jid
MessagesOf(msgs, jid) == SelectSeq(msgs, LAMBDA m : IsOf(jid, m))
DbHistory(msgs, jid) ==
    LET newestFirst == Reverse(MessagesOf(msgs, jid))
    IN  SubSeq(newestFirst, 1, Min(Len(newestFirst), HistoryLength))

\* the entry saveMessage caches, and the one getMessageHistory caches
SavedEntry(m) == [role |-> IF m.by = "user" THEN "user" ELSE "model", parts |-> <<m.text>>]
BackfillEntry(m) == [from |-> m.by, text |-> m.text]

\* for (let i = dbHistory.length - 1; i >= 0; i--) pipeline.lPush(...)
RECURSIVE Backfill(_, _, _)
Backfill(list, dbHistory, i) ==
    IF i = 0 THEN list
    ELSE Backfill(LPush(list, BackfillEntry(dbHistory[i])), dbHistory, i - 1)

\* getMessageHistory: h is the new content of the cache, ret what it returns
GetMessageHistory(h, msgs, jid) ==
    IF Len(h[jid]) # 0 THEN [h |-> h, ret |-> h[jid]]
    ELSE LET dbHistory == DbHistory(msgs, jid)
             list      == Backfill(<<>>, dbHistory, Len(dbHistory))
         IN  [h |-> [h EXCEPT ![jid] = list], ret |-> list]

\* saveMessage with the cache written before the store
SaveMessageCacheFirst(h, msgs, m, fails) ==
    [h    |-> [h EXCEPT ![m.jid] = LTrim(LPush(@, SavedEntry(m)), HistoryLength - 1)],
     msgs |-> IF fails THEN msgs ELSE Append(msgs, m)]

\* saveMessage with the store and the cache: fails is whether Message.create
\* rejects, which the catch answers with a plain return
SaveMessageThrough(h, msgs, m, fails) ==
    IF fails THEN [h |-> h, msgs |-> msgs]
    ELSE [h    |-> [h EXCEPT ![m.jid] = LTrim(LPush(@, SavedEntry(m)), HistoryLength - 1)],
          msgs |-> Append(msgs, m)]

\* one step of a UserService call
CacheStep(u, uc, msgs, h, cs, call) ==
    /\ users' = u
    /\ userCache' = uc
    /\ messages' = msgs
    /\ history' = h
    /\ calls' = cs
    /\ lastCall' = call
    /\ UNCHANGED <<reachOuts, queries, procs, coheld, retry, triage, typing>>

CallSaveMessage(jid, by, fails) ==
    LET m == [jid |-> jid, by |-> by, text |-> Len(messages) + 1]
        r == SaveMessageThrough(history, messages, m, fails)
    IN  /\ Len(messages) < MaxMessages
        /\ CacheStep(users, userCache, r.msgs, r.h, calls,
                     [op |-> "saveMessage", jid |-> jid, failed |-> fails,
                      entry |-> SavedEntry(m), before |-> history[jid]])

CallGetMessageHistory(jid) ==
    CacheStep(users, userCache, messages, GetMessageHistory(history, messages, jid).h,
              calls, NoCall)

\* the list history:{jid} leaves Redis (eviction, flush, restart)
EvictHistory(jid) ==
    /\ history[jid] # <<>>
    /\ CacheStep(users, userCache, messages, [history EXCEPT ![jid] = <<>>], calls, NoCall)

NextHistory ==
    \/ \E jid \in Jids, by \in Bys, fails \in BOOLEAN : CallSaveMessage(jid, by, fails)
    \/ \E jid \in Jids : CallGetMessageHistory(jid)
    \/ \E jid \in Jids : EvictHistory(jid)

SpecHistory == Init /\ [][NextHistory]_vars

\* ---- the same two calls, interleaved at their awaits
\* a call has completed for jid
HistoryDone(jid) == [op |-> "historyDone", jid |-> jid]

\* saveMessage: Message.create has succeeded
StartSave(c, jid, by) ==
    LET m == [jid |-> jid, by |-> by, text |-> Len(messages) + 1]
    IN  /\ calls[c].pc = "idle"
        /\ Len(messages) < MaxMessages
        /\ CacheStep(users, userCache, Append(messages, m), history,
                     [calls EXCEPT ![c] = [IdleCall EXCEPT !.pc = "s_push", !.jid = jid,
                                                           !.doc = SavedEntry(m)]], NoCall)

\* await redis.lPush
SavePush(c) ==
    /\ calls[c].pc = "s_push"
    /\ CacheStep(users, userCache, messages,
                 [history EXCEPT ![calls[c].jid] = LPush(@, calls[c].doc)],
                 [calls EXCEPT ![c].pc = "s_trim"], NoCall)

\* await redis.lTrim, and the call returns
SaveTrim(c) ==
    /\ calls[c].pc = "s_trim"
    /\ CacheStep(users, userCache, messages,
                 [history EXCEPT ![calls[c].jid] = LTrim(@, HistoryLength - 1)],
                 [calls EXCEPT ![c] = IdleCall], HistoryDone(calls[c].jid))

\* getMessageHistory: await redis.lRange; a filled list is returned
StartGet(c, jid) ==
    /\ calls[c].pc = "idle"
    /\ IF Len(history[jid]) # 0
       THEN CacheStep(users, userCache, messages, history, calls, HistoryDone(jid))
       ELSE CacheStep(users, userCache, messages, history,
                      [calls EXCEPT ![c] = [IdleCall EXCEPT !.pc = "g_find", !.jid = jid]],
                      NoCall)

\* await Message.find: nothing stored returns the empty list
GetFind(c) ==
    LET dbHistory == DbHistory(messages, calls[c].jid)
    IN  /\ calls[c].pc = "g_find"
        /\ IF dbHistory = <<>>
           THEN CacheStep(users, userCache, messages, history,
                          [calls EXCEPT ![c] = IdleCall], HistoryDone(calls[c].jid))
           ELSE CacheStep(users, userCache, messages, history,
                          [calls EXCEPT ![c] = [@ EXCEPT !.pc = "g_fill", !.doc = dbHistory]],
                          NoCall)

\* await pipeline.exec, the final lRange, and the call returns
GetFill(c) ==
    /\ calls[c].pc = "g_fill"
    /\ CacheStep(users, userCache, messages,
                 [history EXCEPT ![calls[c].jid] =
                      Backfill(@, calls[c].doc, Len(calls[c].doc))],
                 [calls EXCEPT ![c] = IdleCall], HistoryDone(calls[c].jid))

NextHistoryConc ==
    \/ \E c \in 1..MaxCalls, jid \in Jids, by \in Bys : StartSave(c, jid, by)
    \/ \E c \in 1..MaxCalls : SavePush(c)
    \/ \E c \in 1..MaxCalls : SaveTrim(c)
    \/ \E c \in 1..MaxCalls, jid \in Jids : StartGet(c, jid)
    \/ \E c \in 1..MaxCalls : GetFind(c)
    \/ \E c \in 1..MaxCalls : GetFill(c)
    \/ \E jid \in Jids : EvictHistory(jid)

SpecHistoryConc == Init /\ [][NextHistoryConc]_vars

\* ---- the user documents: User collection and the entries user:{jid}
\* the patches of the coordinator's updateUser calls tried
Patches == {[type |-> "idol", currentReachout |-> Null], [type |-> "candidate"]}

Running(c) == calls[c].pc # "idle"

Put(cache, jid, doc) == [k \in DOMAIN cache \cup {jid} |-> IF k = jid THEN doc ELSE cache[k]]

\* findOrCreateUser is called
StartFind(c, jid) ==
    /\ ~Running(c)
    /\ CacheStep(users, userCache, messages, history,
                 [calls EXCEPT ![c] = [IdleCall EXCEPT !.pc = "f_get", !.jid = jid]], NoCall)

\* redis.get: a hit returns the cached document
FindGet(c) ==
    /\ calls[c].pc = "f_get"
    /\ CacheStep(users, userCache, messages, history,
                 [calls EXCEPT ![c] = IF calls[c].jid \in DOMAIN userCache THEN IdleCall
                                      ELSE [@ EXCEPT !.pc = "f_find"]], NoCall)

\* User.findOne, and User.create when there is none
FindLoad(c) ==
    LET u == FindOrCreateUser(St, calls[c].jid).users
    IN  /\ calls[c].pc = "f_find"
        /\ CacheStep(u, userCache, messages, history,
                     [calls EXCEPT ![c] = [@ EXCEPT !.pc = "f_set", !.doc = u[calls[c].jid]]],
                     NoCall)

\* redis.set of the document that was read
FindSet(c) ==
    /\ calls[c].pc = "f_set"
    /\ CacheStep(users, Put(userCache, calls[c].jid, calls[c].doc), messages, history,
                 [calls EXCEPT ![c] = IdleCall], NoCall)

\* updateUser is called for a stored user
StartUpdate(c, jid, patch) ==
    /\ ~Running(c)
    /\ jid \in DOMAIN users
    /\ CacheStep(users, userCache, messages, history,
                 [calls EXCEPT ![c] = [IdleCall EXCEPT !.pc = "u_write", !.jid = jid,
                                                       !.patch = patch]], NoCall)

\* User.findByIdAndUpdate(..., {new: true})
UpdateWrite(c) ==
    LET u == UpdateUser(St, users[calls[c].jid]._id, calls[c].patch).users
    IN  /\ calls[c].pc = "u_write"
        /\ CacheStep(u, userCache, messages, history,
                     [calls EXCEPT ![c] = [@ EXCEPT !.pc = "u_set", !.doc = u[calls[c].jid]]],
                     NoCall)

\* redis.set of the updated document
UpdateSet(c) ==
    /\ calls[c].pc = "u_set"
    /\ CacheStep(users, Put(userCache, calls[c].jid, calls[c].doc), messages, history,
                 [calls EXCEPT ![c] = IdleCall], NoCall)

\* the entry user:{jid} expires
ExpireUser(jid) ==
    /\ jid \in DOMAIN userCache
    /\ CacheStep(users, [k \in DOMAIN userCache \ {jid} |-> userCache[k]], messages,
                 history, calls, NoCall)

NextCache ==
    \/ \E c \in 1..MaxCalls, jid \in Jids : StartFind(c, jid)
    \/ \E c \in 1..MaxCalls : FindGet(c)
    \/ \E c \in 1..MaxCalls : FindLoad(c)
    \/ \E c \in 1..MaxCalls : FindSet(c)
    \/ \E c \in 1..MaxCalls, jid \in Jids, patch \in Patches : StartUpdate(c, jid, patch)
    \/ \E c \in 1..MaxCalls : UpdateWrite(c)
    \/ \E c \in 1..MaxCalls : UpdateSet(c)
    \/ \E jid \in Jids : ExpireUser(jid)

SpecCache == Init /\ [][NextCache]_vars

\* ======================================================== executeWithRetry
\* an error as isTransientError reads it: its statusCode / code / status, a
\* number or not, and its message
Codes == {[number |-> TRUE, v |-> 429], [number |-> TRUE, v |-> 503],
          [number |-> TRUE, v |-> 400], [number |-> FALSE, v |-> 503],
          [number |-> FALSE, v |-> Null]}
Texts == {"model is overloaded", "bad request"}
Errors == [code : Codes, message : Texts]

\* /429|503|temporar|overload|unavailable|rate limit/i.test(msg)
MatchesTransient(message) == message = "model is overloaded"

IsTransientError(err) ==
    \/ err.code.number /\ err.code.v \in {429, 500, 502, 503, 504}
    \/ MatchesTransient(err.message)

\* the last attempt is never recognised
NeverLast(attempt, maxAttempts) == FALSE

LastAttempt(attempt, maxAttempts) == attempt = maxAttempts

RetryStep(r) ==
    /\ retry' = r
    /\ UNCHANGED <<users, reachOuts, queries, lastCall, procs, coheld, cacheVars, triage, typing>>

\* executeWithRetry(op, {maxAttempts}) is called
StartRetry(maxAttempts) ==
    /\ retry.pc \in {"idle", "returned", "threw"}
    /\ RetryStep([IdleRetry EXCEPT !.pc = "loop", !.maxAttempts = maxAttempts,
                                   !.attempt = 1])

\* return await op()
AttemptSucceeds ==
    /\ retry.pc = "loop"
    /\ retry.attempt <= retry.maxAttempts
    /\ RetryStep([retry EXCEPT !.pc = "returned", !.invocations = @ + 1])

\* the catch block without the test of the error's kind
AttemptFailsRetried(err) ==
    /\ retry.pc = "loop"
    /\ retry.attempt <= retry.maxAttempts
    /\ RetryStep(
         IF LastAttempt(retry.attempt, retry.maxAttempts)
         THEN [retry EXCEPT !.pc = "threw", !.invocations = @ + 1,
                            !.errors = Append(@, err), !.thrown = Len(retry.errors) + 1]
         ELSE [retry EXCEPT !.pc = "sleep", !.invocations = @ + 1,
                            !.errors = Append(@, err), !.onRetries = @ + 1,
                            !.waits = @ + 1])

\* op() rejects with err: the catch block up to the throw or the sleep
AttemptFails(err) ==
    /\ retry.pc = "loop"
    /\ retry.attempt <= retry.maxAttempts
    /\ RetryStep(
         IF ~IsTransientError(err) \/ LastAttempt(retry.attempt, retry.maxAttempts)
         THEN [retry EXCEPT !.pc = "threw", !.invocations = @ + 1,
                            !.errors = Append(@, err), !.thrown = Len(retry.errors) + 1]
         ELSE [retry EXCEPT !.pc = "sleep", !.invocations = @ + 1,
                            !.errors = Append(@, err), !.onRetries = @ + 1,
                            !.waits = @ + 1])

\* sleep(wait) is over: attempt++
Wake ==
    /\ retry.pc = "sleep"
    /\ RetryStep([retry EXCEPT !.pc = "loop", !.attempt = @ + 1])

\* the loop condition fails: throw new Error("executeWithRetry: exhausted retries")
Exhausted ==
    /\ retry.pc = "loop"
    /\ retry.attempt > retry.maxAttempts
    /\ RetryStep([retry EXCEPT !.pc = "threw", !.thrown = ExhaustedError])

NextRetry ==
    \/ \E n \in 0..MaxAttempts : StartRetry(n)
    \/ AttemptSucceeds
    \/ \E err \in Errors : AttemptFails(err)
    \/ Wake
    \/ Exhausted

SpecRetry == Init /\ [][NextRetry]_vars

\* op() settles, and the timer of sleep fires
SpecRetryLive ==
    /\ SpecRetry
    /\ WF_vars(AttemptSucceeds \/ \E err \in Errors : AttemptFails(err))
    /\ WF_vars(Wake)
    /\ WF_vars(Exhausted)

\* ================================================= document classification
\* classifyDocumentText's maxRetries default, which its caller leaves
MaxRetries == 2

\* an extracted text, by what the fallback's patterns find in it
Texts4Doc == [email : BOOLEAN, phone : BOOLEAN, hasExperience : BOOLEAN,
              hasEducation : BOOLEAN, hasSkills : BOOLEAN, hasRoleTitles : BOOLEAN,
              foundSkills : 0..MaxSkills]

\* what one generateReply answer parses to
Answers == {"unparseable", "is_resume", "not_resume"}

B2N(b) == IF b THEN 1 ELSE 0

SignalCount(text) ==
    B2N(text.email) + B2N(text.phone) + B2N(text.hasExperience)
    + B2N(text.hasEducation) + B2N(text.hasSkills) + B2N(text.hasRoleTitles)

\* the decision with one signal being enough
IsLikelyResumeOnOneSignal(text) == SignalCount(text) >= 1 \/ text.foundSkills >= 3

IsLikelyResume(text) == SignalCount(text) >= 2 \/ text.foundSkills >= 3

\* the while loop over the attempts, then the heuristic fallback
RECURSIVE ClassifyFrom(_, _, _)
ClassifyFrom(text, answers, attempts) ==
    IF attempts >= MaxRetries THEN [isResume |-> IsLikelyResume(text), by |-> "heuristic"]
    ELSE IF answers[attempts + 1] # "unparseable"
         THEN [isResume |-> answers[attempts + 1] = "is_resume", by |-> "classifier"]
         ELSE ClassifyFrom(text, answers, attempts + 1)

ClassifyDocumentText(text, answers) == ClassifyFrom(text, answers, 0)

\* handleMessagesUpsert has extracted the text of a candidate's or a
\* freelancer's document
ExtractDocument(jid, text) ==
    /\ jid \in DOMAIN users
    /\ users[jid].type \in {"candidate", "freelancer"}
    /\ triage.op # "extracted"
    /\ triage' = [op |-> "extracted", jid |-> jid, text |-> text]
    /\ UNCHANGED <<users, reachOuts, queries, lastCall, procs, coheld, cacheVars, retry, typing>>

\* handleIncomingMessage for that document, the classifier answering answers
ReceiveDocument(answers) ==
    LET c == ClassifyDocumentText(triage.text, answers)
        h == HandleIncomingMessage(St, triage.jid, "document", c.isResume)
    IN  /\ triage.op = "extracted"
        /\ triage' = [op |-> "document", jid |-> triage.jid, text |-> triage.text,
                      answers |-> answers, isResume |-> c.isResume, by |-> c.by,
                      reply |-> h.reply, rejected |-> Sent(h.s, triage.jid, "rejection")]
        /\ users' = h.s.users
        /\ UNCHANGED <<reachOuts, queries, lastCall, procs, coheld, cacheVars, retry, typing>>

\* a new sender takes a role whose documents are triaged
RegisterRole(jid, newUserType) ==
    /\ jid \notin DOMAIN users
    /\ EndOfSessionNew(jid, newUserType)

\* the sender whose documents are followed
DocSenders == {Jid(1)}

NextDoc ==
    \/ \E jid \in DocSenders, nt \in {"candidate", "freelancer"} : RegisterRole(jid, nt)
    \/ \E jid \in DocSenders, text \in Texts4Doc : ExtractDocument(jid, text)
    \/ \E answers \in [1..MaxRetries -> Answers] : ReceiveDocument(answers)

SpecDoc == Init /\ [][NextDoc]_vars

TypeOK ==
    /\ DOMAIN users \subseteq JidStrings
    /\ \A k \in DOMAIN users :
          /\ users[k].type \in UserTypes
          /\ users[k].currentReachout \in 0..Len(reachOuts)
    /\ Len(reachOuts) <= MaxReachOuts
    /\ Len(queries) <= MaxQueries
    /\ \A i \in 1..Len(reachOuts) :
          /\ reachOuts[i].status \in ReachOutStatuses
          /\ reachOuts[i].type \in ReachOutTypes
          /\ reachOuts[i].queryId \in 1..Len(queries)

\* ===================================================================== claims
Engaged(doc) == doc.type \in {"rof", "roc"}

QualifyingOf(q) == {i \in 1..Len(reachOuts) :
                       reachOuts[i].queryId = q /\ reachOuts[i].status = "qualify"}
ReachOutsOf(q) == {i \in 1..Len(reachOuts) : reachOuts[i].queryId = q}
OverHalf(q) == 2 * Cardinality(QualifyingOf(q)) > Cardinality(ReachOutsOf(q))

\* C1: after every coordinator transition, for every user, currentReachout is
\* non-null if and only if the user's type is rof or roc.
C1_CurrentReachoutIffEngaged ==
    \A k \in DOMAIN users : (users[k].currentReachout # Null) <=> Engaged(users[k])

\* C2: a target has at most one ask-type ReachOut in status init (opening an
\* ask never replaces a currentReachout whose ReachOut is still init).
C2_OneActiveAskPerTarget ==
    \A t \in JidStrings :
        Cardinality({i \in 1..Len(reachOuts) :
            /\ reachOuts[i].targetId = t
            /\ reachOuts[i].type = "ask"
            /\ reachOuts[i].status = "init"}) <= 1

\* C3: User.type only changes along the edges the state list names.
TypeEdges ==
    ({"new"} \X {"candidate", "freelancer", "client", "hr", "idol"})
    \cup ({"idol"} \X {"rof", "roc"})
    \cup ({"rof", "roc", "candidate", "freelancer", "client", "hr"} \X {"idol"})

C5_OverHalfIsSuccess ==
    \A q \in 1..Len(queries) : OverHalf(q) => queries[q].status = "success"

\* C6: once a Query's status is success or fail, no operation changes it.
C6_TerminalQueryStatusKept ==
    [][\A q \in 1..Len(queries) :
          queries[q].status \in {"success", "fail"}
              => queries'[q].status = queries[q].status]_vars

\* C7: isQuerySuccessful(q) returns true and sets status success exactly when
\* the qualifying ReachOuts of q are more than half of all its ReachOuts;
\* otherwise it returns false and changes nothing; it never sets fail.
C7_IsQuerySuccessfulContract ==
    [][lastCall'.op = "isQuerySuccessful" =>
          LET q == lastCall'.queryId
          IN  /\ lastCall'.ret <=> OverHalf(q)
              /\ users' = users /\ reachOuts' = reachOuts
              /\ lastCall'.ret /\ q \in 1..Len(queries) =>
                    /\ queries'[q].status = "success"
                    /\ \A p \in 1..Len(queries) : p # q => queries'[p] = queries[p]
                    /\ Len(queries') = Len(queries)
              /\ ~lastCall'.ret => queries' = queries /\ lastCall'.qwrites = 0
              /\ \A p \in 1..Len(queries') :
                    queries'[p].status = "fail" => queries[p].status = "fail"]_vars

\* isQuerySuccessful has returned true on a query with a ReachOut that does
\* not qualify, and has written success
C7_Witness ==
    /\ lastCall.op = "isQuerySuccessful" /\ lastCall.ret /\ lastCall.qwrites = 1
    /\ queries[lastCall.queryId].status = "success"
    /\ Cardinality(ReachOutsOf(lastCall.queryId)) = 3
    /\ Cardinality(QualifyingOf(lastCall.queryId)) = 2

\* C8: a second isQuerySuccessful call on the same query, right after the
\* first, returns the same boolean and performs no write.
C8_SecondCallWritesNothing ==
    (lastCall.op = "isQuerySuccessful" /\ lastCall.again)
        => (lastCall.ret = lastCall.before /\ lastCall.qwrites = 0)

\* C4: a ReachOut is created in hold; its status only moves hold -> init (an
\* ask), hold -> qualify (a notify), init -> qualify, init -> fail; a status of
\* qualify or fail never changes, whatever the interleaving.
StatusEdges ==
    {<<"ask", "hold", "init">>, <<"notify", "hold", "qualify">>,
     <<"ask", "init", "qualify">>, <<"ask", "init", "fail">>,
     <<"notify", "init", "qualify">>, <<"notify", "init", "fail">>}

C4_StatusEdgesOnly ==
    [][\A i \in 1..Len(reachOuts') :
          IF i > Len(reachOuts) THEN reachOuts'[i].status = "hold"
          ELSE reachOuts'[i].status # reachOuts[i].status
                  => <<reachOuts[i].type, reachOuts[i].status, reachOuts'[i].status>>
                          \in StatusEdges]_vars

\* C9: held ReachOuts of one target are processed oldest first: a ReachOut
\* never leaves hold, and never becomes a user's currentReachout, while an
\* older ReachOut of the same target is still in hold.
Processed(r) ==
    \/ reachOuts[r].status = "hold" /\ reachOuts'[r].status # "hold"
    \/ \E k \in DOMAIN users :
          users[k].currentReachout # r /\ users'[k].currentReachout = r

C9_OldestHeldFirst ==
    [][\A r \in 1..Len(reachOuts) :
          Processed(r) =>
              \A o \in 1..(r - 1) :
                  reachOuts[o].targetId = reachOuts[r].targetId
                      => reachOuts[o].status # "hold"]_vars

\* two ReachOuts of one target were in hold together and both have been
\* processed
C9_Witness ==
    \E pair \in coheld :
        reachOuts[pair[1]].status # "hold" /\ reachOuts[pair[2]].status # "hold"

\* C10: when an older ask and a newer notify of one target are in hold
\* together, the notify stays in hold until the ask has resolved to qualify or
\* fail.
C10_NotifyWaitsForAsk ==
    \A pair \in coheld :
        (/\ reachOuts[pair[1]].type = "ask"
         /\ reachOuts[pair[2]].type = "notify"
         /\ reachOuts[pair[2]].status # "hold")
            => reachOuts[pair[1]].status \in {"qualify", "fail"}

\* ------------------------------------------------------------------ C11..C20
\* the known users that messages come from
Senders == DOMAIN users \cap Jids

NothingHeld(jid) == FindHeldReachOutsForUser(St, jid) = <<>>

SameStore(s) == s.users = users /\ s.reachOuts = reachOuts /\ s.queries = queries

\* C11: checkReachOut for a user with no held ReachOut returns false, writes
\* no User, ReachOut, Query or Message record and sends no message.
C11_NothingPendingIsNoOp ==
    \A jid \in Senders :
        NothingHeld(jid) =>
            LET c == CheckReachOut(St, jid)
            IN  /\ c.ret = FALSE
                /\ SameStore(c.s)
                /\ c.s.qwrites = 0 /\ c.s.saved = <<>> /\ c.s.out = <<>>

\* a user whose ReachOuts have all been processed, while another user still
\* has one in progress
C11_Witness ==
    \E jid \in Senders :
        /\ NothingHeld(jid)
        /\ \E i \in 1..Len(reachOuts) : reachOuts[i].targetId = jid
        /\ \E i \in 1..Len(reachOuts) :
              reachOuts[i].targetId # jid /\ reachOuts[i].status = "init"

\* C12: an hr author's query dispatch with one new candidate ends with one
\* more Query (init), one ReachOut for the candidate in init, the candidate
\* roc with currentReachout on it, and one 'ask' message sent to the candidate.
DispatchCandidate == CandidateJid(HardcodedCandidates[1])

AsksSentTo(s, jid) ==
    Cardinality({n \in 1..Len(s.out) : s.out[n] = [to |-> jid, kind |-> "ask"]})

C12_HrDispatchOpensOneAsk ==
    \A jid \in Senders :
        (/\ users[jid].type = "hr"
         /\ jid # DispatchCandidate
         /\ DispatchCandidate \notin DOMAIN users)
            => LET r == HandleEndOfSession(LoadSender(St, jid).s, jid, "hr", NoType, "other")
                   n == Len(reachOuts) + 1
               IN  /\ Len(r.queries) = Len(queries) + 1
                   /\ r.queries[Len(r.queries)].status = "init"
                   /\ Len(r.reachOuts) = n
                   /\ r.reachOuts[n].targetId = DispatchCandidate
                   /\ r.reachOuts[n].status = "init"
                   /\ r.users[DispatchCandidate].type = "roc"
                   /\ r.users[DispatchCandidate].currentReachout = n
                   /\ AsksSentTo(r, DispatchCandidate) = 1

\* C13: session end for a rof/roc user with verdict fail (qualify) sets the
\* active ReachOut to fail (qualify); when the user has no held ReachOut the
\* user ends idol with currentReachout null and the closing sweep returns false.
C13_VerdictReleasesUser ==
    \A jid \in Senders, ut \in {"roc", "rof"}, v \in {"qualify", "fail"} :
        LET l   == LoadSender(St, jid)
            rid == users[jid].currentReachout
        IN  (Engaged(users[jid]) /\ rid \in 1..Len(reachOuts) /\ l.ok)
                => LET r == HandleEndOfSession(l.s, jid, ut, NoType, v)
                   IN  /\ r.reachOuts[rid].status = v
                       /\ NothingHeld(jid) =>
                             /\ r.users[jid].type = "idol"
                             /\ r.users[jid].currentReachout = Null
                             /\ \E n \in 1..Len(r.sweeps) :
                                   /\ r.sweeps[n] = [jid |-> jid, ret |-> FALSE]
                                   /\ \A m \in (n + 1)..Len(r.sweeps) :
                                         r.sweeps[m].jid # jid

\* a user has been released with the verdict fail
C13_Witness ==
    \E jid \in Senders :
        /\ users[jid].type = "idol" /\ users[jid].currentReachout = Null
        /\ \E i \in 1..Len(reachOuts) :
              /\ reachOuts[i].targetId = jid
              /\ reachOuts[i].type = "ask"
              /\ reachOuts[i].status = "fail"

\* the users whose _id is the given author id
UsersWithId(id) == {k \in DOMAIN users : users[k]._id = id}

\* C14: makeReachOut never creates a ReachOut whose target is the author of
\* its query.
C14_NoReachOutToAuthor ==
    \A i \in 1..Len(reachOuts) :
        reachOuts[i].targetId \notin UsersWithId(queries[reachOuts[i].queryId].author_id)

\* C15: query creation fails, persisting no Query and no ReachOut, unless the
\* author's stored type is hr or client; otherwise it persists the Query with
\* status init and the author's type. Every stored Query has author_type hr or
\* client.
MayCreate(a) == \E k \in UsersWithId(a) : users[k].type \in {"hr", "client"}

C15_OnlyHrOrClientCreate ==
    /\ \A q \in 1..Len(queries) : queries[q].author_type \in {"hr", "client"}
    /\ \A a \in AuthorIds, cs \in ConcCandidateLists :
          LET m == MakeReachOut(St, a, cs)
          IN  IF MayCreate(a)
              THEN /\ m.ret
                   /\ Len(m.s.queries) = Len(queries) + 1
                   /\ \E k \in UsersWithId(a) :
                         m.s.queries[Len(queries) + 1] =
                             [author_id |-> a, author_type |-> users[k].type,
                              status |-> "init"]
              ELSE ~m.ret /\ SameStore(m.s)

\* a query exists whose author has since stopped being hr or client, next to
\* a user who may not create one
C15_Witness ==
    /\ \E q \in 1..Len(queries) : ~MayCreate(queries[q].author_id)
    /\ \E k \in DOMAIN users : users[k].type = "candidate"

\* C16: at most one ReachOut exists per (query, target) pair.
C16_OneReachOutPerQueryAndTarget ==
    \A i, j \in 1..Len(reachOuts) :
        (reachOuts[i].queryId = reachOuts[j].queryId
            /\ reachOuts[i].targetId = reachOuts[j].targetId) => i = j

\* C17: the session-end handler runs the branch of the user's stored type: a
\* call whose userType argument differs from the stored type has the effect
\* of the stored type's branch, not of the argument's.
C17_DispatchOnStoredType ==
    \A jid \in Senders, ut \in UserTypes, nt \in NewTypes, v \in Verdicts :
        LET l == LoadSender(St, jid)
        IN  (l.ok /\ ut # users[jid].type)
                => LET byArgument == HandleEndOfSession(l.s, jid, ut, nt, v)
                       byStored   == HandleEndOfSession(l.s, jid, users[jid].type, nt, v)
                   IN  /\ byArgument.users = byStored.users
                       /\ byArgument.reachOuts = byStored.reachOuts
                       /\ byArgument.queries = byStored.queries

\* C18: every branch of the session-end handler ends with the 'session
\* changed' notice delivered and persisted, and the handler reports the
\* branch's outcome, not an error.
C18_NoticeSavedAndResultKept ==
    \A jid \in Senders, ut \in UserTypes, nt \in NewTypes \ {NoType} :
        LET l == LoadSender(St, jid)
        IN  l.ok =>
                LET r == HandleEndOfSession(l.s, jid, ut, nt, "fail")
                IN  /\ \E n \in 1..Len(r.out) : r.out[n] = [to |-> jid, kind |-> "notice"]
                    /\ \E n \in 1..Len(r.saved) : r.saved[n] = [jid |-> jid, kind |-> "notice"]
                    /\ Outcome(l.s, jid, ut, nt, "fail").success

\* C19: the mutations a message of a jid triggers are complete before the
\* next message of that jid is processed: no two flows started by messages of
\* one jid are in flight together.
C19_OneFlowPerJid ==
    \A p1, p2 \in 1..MaxProcs :
        (p1 # p2 /\ procs[p1].qjid # NoJid) => procs[p2].qjid # procs[p1].qjid

\* C20: when a Query is success, the next sweep run for its author sends the
\* author a summary of the query's qualifying ReachOuts.
C20_SuccessIsReportedToAuthor ==
    \A q \in 1..Len(queries), jid \in Senders :
        (queries[q].status = "success" /\ jid \in UsersWithId(queries[q].author_id))
            => LET c == CheckReachOut(St, jid)
               IN  \E n \in 1..Len(c.s.out) :
                       c.s.out[n] = [to |-> jid, kind |-> "summary"]

\* ================================================================= C21..C30
\* the ReachOuts of query q for target jid in store s
AsksOf(s, q, jid) ==
    {i \in 1..Len(s.reachOuts) : s.reachOuts[i].queryId = q /\ s.reachOuts[i].targetId = jid}

\* C21: when one candidate's path fails in makeReachOut, every later valid
\* candidate of the list still gets its ReachOut created and its sweep run
\* (none of its ReachOuts of the new query is left on hold).
C21_FaultKeepsFanOutGoing ==
    \A a \in AuthorIds, cs \in FaultyCandidateLists, at \in 1..MaxFaultyCandidates, f \in Faults :
        (/\ Len(queries) < MaxQueries
         /\ QueryAuthor(St, a) # {}
         /\ at <= Len(cs)
         /\ ~SkipCandidate(a, cs[at]))
        => LET s == MakeReachOutFaulty(St, a, cs, at, f)
               q == Len(s.queries)
           IN  \A j \in (at + 1)..Len(cs) :
                   ~SkipCandidate(a, cs[j])
                   => /\ AsksOf(s, q, CandidateJid(cs[j])) # {}
                      /\ \A i \in AsksOf(s, q, CandidateJid(cs[j])) :
                             s.reachOuts[i].status # "hold"

\* whether a triage flow exists for a sender of this type and this attachment
FlowApplies(userType, mediaType) ==
    \/ mediaType = "linkedinUrl"
    \/ mediaType = "document" /\ userType \in {"candidate", "freelancer"}
    \/ mediaType = "url" /\ userType = "freelancer"

\* C22: for a message that enters a triage flow, handleIncomingMessage stops
\* without a general reply exactly when the verdict is negative, and then a
\* rejection has been delivered; on a positive verdict the general reply is
\* produced.
C22_StopIffNegativeVerdict ==
    \A jid \in Senders, mt \in MediaTypes, pos \in BOOLEAN :
        FlowApplies(users[jid].type, mt) /\ ~(users[jid].type \in {"rof", "roc"})
        => LET h == HandleIncomingMessage(St, jid, mt, pos)
           IN  /\ h.reply = pos
               /\ ~pos => Sent(h.s, jid, "rejection")

Handling(log) == {i \in 1..Len(log) : log[i] \in {"handled", "raised"}}

\* C28: the handling of an inbound message is bracketed by presence updates:
\* composing is sent before the handling, paused is sent after the handling
\* has ended, whether it returned or raised, and never while it is going on.
C28_TypingBracketsHandling ==
    \A jid \in Jids, mt \in MediaTypes, pos \in BOOLEAN, slow \in BOOLEAN :
        LET log == HandleMessagesUpsert(St, jid, mt, pos, slow).presence
        IN  /\ log[1] = "composing"
            /\ \A e \in Handling(log) :
                   /\ \E j \in (e + 1)..Len(log) : log[j] = "paused"
                   /\ \A j \in 1..(e - 1) : log[j] # "paused"

\* the positions in s.out of the opening messages of a sweep, in order
RECURSIVE OpeningsFrom(_, _)
OpeningsFrom(s, i) ==
    IF i > Len(s.out) THEN <<>>
    ELSE IF s.out[i].kind \in {"ask", "notify"} THEN <<i>> \o OpeningsFrom(s, i + 1)
    ELSE OpeningsFrom(s, i + 1)

\* C23: in the sweep the status of a ReachOut has left hold (init for an ask,
\* qualify for a notify) in the store by the time its opening message is
\* handed to WhatsApp, and it is still so when the sweep returns.
C23_StatusCommittedBeforeSend ==
    \A jid \in Senders :
        LET held  == HeldSnapshot(St, jid)
            s     == CheckReachOut(St, jid).s
            opens == OpeningsFrom(s, 1)
        IN  \A j \in 1..Len(opens) :
                /\ j <= Len(held)
                /\ s.seen[opens[j]][held[j]._id] # "hold"
                /\ s.reachOuts[held[j]._id].status # "hold"

\* C24: saveMessage writes the store first: when the store write fails the
\* list history:{jid} is what it was and the call returns; when it succeeds
\* the entry is at the front of the list and the list is trimmed.
C24_StoreFirstThenCache ==
    lastCall.op = "saveMessage"
    => IF lastCall.failed THEN history[lastCall.jid] = lastCall.before
       ELSE /\ Head(history[lastCall.jid]) = lastCall.entry
            /\ Len(history[lastCall.jid]) <= HistoryLength
            /\ history[lastCall.jid]
                   = SubSeq(<<lastCall.entry>> \o lastCall.before, 1,
                            Len(history[lastCall.jid]))
            /\ Len(history[lastCall.jid])
                   = Min(HistoryLength, Len(lastCall.before) + 1)

\* a save failed over a full list, which is left as it was
C24_Witness ==
    /\ lastCall.op = "saveMessage"
    /\ lastCall.failed
    /\ Len(lastCall.before) = HistoryLength
    /\ history[lastCall.jid] = lastCall.before

\* a save succeeded over a full list, which was trimmed
C24_WitnessTrim ==
    /\ lastCall.op = "saveMessage"
    /\ ~lastCall.failed
    /\ Len(lastCall.before) = HistoryLength
    /\ Len(history[lastCall.jid]) = HistoryLength

\* C29: once the findOrCreateUser and updateUser calls in flight have
\* completed, an entry user:{jid} present in the cache equals the document
\* the store holds for that user.
C29_CacheEqualsStoreAtRest ==
    (\A c \in 1..MaxCalls : ~Running(c))
    => \A jid \in DOMAIN userCache : jid \in DOMAIN users /\ userCache[jid] = users[jid]

\* what getMessageHistory should return: the stored messages of jid, the
\* HistoryLength most recent, in the shape entry and in either order
Recent(jid, entry(_)) ==
    LET db == DbHistory(messages, jid) IN [i \in 1..Len(db) |-> entry(db[i])]

\* C30: getMessageHistory(jid) returns the HistoryLength most recent stored
\* messages of jid (all when fewer), in one order and one entry shape, however
\* the list was filled.
C30_HistoryIsRecentStore ==
    \A jid \in Jids :
        LET ret == GetMessageHistory(history, messages, jid).ret
        IN  \/ ret = Recent(jid, SavedEntry)
            \/ ret = Recent(jid, BackfillEntry)
            \/ ret = Reverse(Recent(jid, SavedEntry))
            \/ ret = Reverse(Recent(jid, BackfillEntry))

RetryDone == retry.pc \in {"returned", "threw"}

AllTransient == \A i \in 1..Len(retry.errors) : IsTransientError(retry.errors[i])

\* C25: executeWithRetry terminates; it invokes the operation at most
\* maxAttempts times; it returns at the first success, with no invocation
\* after it; when every attempt failed with a transient error it throws the
\* last error after exactly maxAttempts invocations.
C25_RetryIsBounded ==
    /\ [](/\ retry.invocations <= retry.maxAttempts
          /\ retry.pc = "returned" => /\ retry.invocations = Len(retry.errors) + 1
                                      /\ AllTransient
          /\ retry.pc # "returned" => retry.invocations = Len(retry.errors)
          /\ (retry.pc = "threw" /\ AllTransient /\ retry.maxAttempts >= 1)
             => /\ retry.invocations = retry.maxAttempts
                /\ retry.thrown = retry.maxAttempts)
    /\ (retry.pc = "loop" ~> RetryDone)

\* every attempt failed with a transient error and the last one was thrown
C25_Witness ==
    /\ retry.pc = "threw"
    /\ retry.maxAttempts = MaxAttempts
    /\ retry.invocations = MaxAttempts
    /\ AllTransient
    /\ retry.thrown = MaxAttempts

\* C26: an attempt that fails with a non-transient error ends the call at
\* once: the error is thrown, with no onRetry call and no wait for it and no
\* invocation after it, whatever the attempts left.
C26_NonTransientPropagates ==
    \A i \in 1..Len(retry.errors) :
        ~IsTransientError(retry.errors[i])
        => /\ i = Len(retry.errors)
           /\ retry.pc = "threw"
           /\ retry.thrown = i
           /\ retry.invocations = i
           /\ retry.onRetries = i - 1
           /\ retry.waits = i - 1

\* a non-transient error on the first of several attempts
C26_Witness ==
    /\ retry.pc = "threw"
    /\ retry.maxAttempts = MaxAttempts
    /\ Len(retry.errors) = 1
    /\ ~IsTransientError(retry.errors[1])
    /\ retry.invocations = 1

\* the section and role-title signals of a text
KeywordSignals(text) ==
    B2N(text.hasExperience) + B2N(text.hasEducation) + B2N(text.hasSkills)
    + B2N(text.hasRoleTitles)

\* the classifier's output was unparseable on every attempt, and the text has
\* no email, no phone and fewer than 2 signal keywords
FallbackOnWeakText ==
    /\ triage.op = "document"
    /\ \A a \in 1..MaxRetries : triage.answers[a] = "unparseable"
    /\ ~triage.text.email /\ ~triage.text.phone
    /\ KeywordSignals(triage.text) < 2

TypeOf(jid) == IF jid \in DOMAIN users THEN users[jid].type ELSE "new"

\* C31: the ReachOut makeReachOut creates for a candidate is of type ask
\* exactly when the query's author is a client, or is hr and the target's
\* type is new; otherwise it is of type notify and carries the synthesized
\* userInfo; either way it is in hold when the sweep that follows starts.
C31_AskOrNotifyOnHold ==
    \A q \in 1..Len(queries), phone \in Candidates :
        ~SkipCandidate(queries[q].author_id, phone)
        => LET jid == CandidateJid(phone)
               s   == FanOutOne(St, q, queries[q].author_id, phone)
               new == Len(reachOuts) + 1
               ask == \/ queries[q].author_type = "client"
                      \/ queries[q].author_type = "hr" /\ TypeOf(jid) = "new"
           IN  /\ Len(s.reachOuts) = new
               /\ s.reachOuts[new].targetId = jid
               /\ s.reachOuts[new].queryId = q
               /\ s.reachOuts[new].type = (IF ask THEN "ask" ELSE "notify")
               /\ s.reachOuts[new].userInfo = (IF ask THEN "" ELSE "generated")
               /\ s.seen[1][new] = "hold"

\* an hr author's query holds an ask for a new target and a notify for a
\* target that had a role
C31_Witness ==
    \E i, j \in 1..Len(reachOuts) :
        /\ queries[reachOuts[i].queryId].author_type = "hr"
        /\ reachOuts[i].type = "ask"
        /\ reachOuts[j].queryId = reachOuts[i].queryId
        /\ reachOuts[j].type = "notify"
        /\ reachOuts[j].userInfo = "generated"

\* the users engaged in a stored ReachOut
InConversation ==
    {jid \in Senders : /\ Engaged(users[jid])
                       /\ users[jid].currentReachout \in 1..Len(reachOuts)}

\* C32: when the verdict is neither qualify nor fail the qualification flow
\* changes nothing: users, ReachOuts and Queries are as they were, no Query
\* status is written, no sweep runs and nothing is sent.
C32_UnresolvedChangesNothing ==
    \A jid \in InConversation :
        LET s == HandleReachOutUser(St, jid, "other")
        IN  /\ SameStore(s)
            /\ s.qwrites = 0
            /\ s.sweeps = <<>>
            /\ s.out = <<>>

\* a user engaged in an opened ask, whom a terminal verdict would release
C32_Witness ==
    \E jid \in InConversation :
        /\ reachOuts[users[jid].currentReachout].status = "init"
        /\ SameStore(HandleReachOutUser(St, jid, "other"))
        /\ ~SameStore(HandleReachOutUser(St, jid, "fail"))

C34_QueryStatusInEnum ==
    \A q \in 1..Len(queries) : queries[q].status \in QueryStatuses

\* the number of the message a cache entry was made from
EntryText(e) == IF "parts" \in DOMAIN e THEN e.parts[1] ELSE e.text

\* C35: when a saveMessage or getMessageHistory call has just completed for
\* jid, the list history:{jid} holds at most HistoryLength entries, each
\* newer than the one behind it, so that the newest of them is at the front.
C35_HistoryBoundedNewestFirst ==
    lastCall.op = "historyDone"
    => LET list == history[lastCall.jid]
       IN  /\ Len(list) <= HistoryLength
           /\ \A i \in 1..(Len(list) - 1) : EntryText(list[i]) > EntryText(list[i + 1])

\* the user of jid, if engaged, is engaged on an ask of their own in init
EngagedOnInitAsk(s, jid) ==
    Engaged(s.users[jid])
        => LET r == s.users[jid].currentReachout
           IN  /\ r \in 1..Len(s.reachOuts)
               /\ s.reachOuts[r].targetId = jid
               /\ s.reachOuts[r].type = "ask"
               /\ s.reachOuts[r].status = "init"

\* C36: after a completed checkReachOut call for a user, also one that ended
\* in its catch block, the user, if of type rof or roc, has a currentReachout
\* that is an existing ask targeted at them in status init.
C36_EngagedOnlyOnInitAsk ==
    \A jid \in Senders :
        EngagedOnInitAsk(St, jid)
            => /\ EngagedOnInitAsk(CheckReachOut(St, jid).s, jid)
               /\ EngagedOnInitAsk(CheckReachOutFaulty(St, jid).s, jid)

\* the asks of query q that a qualification flow has given its verdict
JudgedAsks(q) ==
    {i \in ReachOutsOf(q) : reachOuts[i].type = "ask"
                            /\ reachOuts[i].status \in {"qualify", "fail"}}

\* no qualification flow of query q is between its verdict and its decision
FlowsFinished(q) ==
    \A p \in 1..MaxProcs :
        procs[p].pc \in {"q_verdict", "q_check", "q_found"} => procs[p].q # q

\* C37: when the qualification flows of two different targets of one Query have
\* both written their verdict and made their success check, in whatever order
\* their steps were interleaved, and more than half of the Query's ReachOuts
\* are in qualify, the Query's status is success.
C37_InterleavedFlowsReachSuccess ==
    \A q \in 1..Len(queries) :
        (/\ \E i, j \in JudgedAsks(q) : reachOuts[i].targetId # reachOuts[j].targetId
         /\ FlowsFinished(q)
         /\ OverHalf(q))
            => queries[q].status = "success"

\* two flows of one Query overlapped: both have decided and neither has yet
\* released its user, and both asks qualify
C37_Witness ==
    /\ procs[1].pc = "q_release" /\ procs[2].pc = "q_release"
    /\ procs[1].q = procs[2].q
    /\ procs[1].rid # procs[2].rid
    /\ reachOuts[procs[1].rid].targetId # reachOuts[procs[2].rid].targetId
    /\ reachOuts[procs[1].rid].status = "qualify"
    /\ reachOuts[procs[2].rid].status = "qualify"
    /\ queries[procs[1].q].status = "success"

\* C39: for each jid at most one heartbeat timer is live, and every live
\* heartbeat timer is the one recorded for its jid in the map _active (so that
\* stopTyping(jid) or stopAll() clears it, and a jid that is not in the map
\* has no heartbeat left to fire).
C39_OneRecordedHeartbeatPerJid ==
    /\ \A jid \in Jids :
          Cardinality({i \in typing.intervals : i[2] = jid}) <= 1
    /\ \A i \in typing.intervals : typing.active[i[2]].interval = i[1]

\* ReachOut i exists and is in hold
InHold(i) == i <= Len(reachOuts) /\ reachOuts[i].status = "hold"

====
